---- MODULE Spec2Model ----
(***************************************************************************)
(* A model of pydiceplot's data-to-geometry pipeline:                      *)
(*   - the sub-cell position assigner (calculate_var_positions and the     *)
(*     older create_var_positions),                                        *)
(*   - the dice preprocessing pipeline (prepare_data, create_binary_matrix,*)
(*     perform_clustering, preprocess_dice_plot) and the plot_dice handler *)
(*     with its axis-switch transform,                                     *)
(*   - the older perform_clustering / prepare_box_data helpers.            *)
(*                                                                         *)
(* Seven specifications share the variables: Spec (tables plotted by       *)
(* plot_dice, once or twice), SpecPos (the position assigners called on    *)
(* their own), SpecOrder (the perform_clustering functions and order_cat_b *)
(* called on a table), SpecDicePlot (tables plotted by the older           *)
(* dice_plot), SpecEnc (the domino plot's quantitative encoder), SpecBk    *)
(* (the package's backend selection) and SpecDomino (tables plotted by     *)
(* plot_domino).                                                           *)
(*                                                                         *)
(* Conventions.  Coordinates are held in tenths (0.2 is 2, grid index 1 is *)
(* 10), so every number is an integer.  A data frame is a record           *)
(* [cols, rows]: cols is the sequence of column names and each row is the  *)
(* tuple of that row's values in column order.  A value a pandas           *)
(* Categorical cannot place in its categories is NaN.  An ordered          *)
(* dictionary (a color map) is the sequence of its keys.                   *)
(***************************************************************************)
EXTENDS Integers, Sequences, FiniteSets, TLC

\* ---------------------------------------------------------------- bounds
\* Most keys a color map handed to the position assigner holds.
MaxKeys == 7
\* Largest max_dice_sides / num_vars argument a caller passes.
MaxSides == 7
\* Most rows of an observation table.
MaxRows == 3
\* Most applications of the axis-switch transform to one output.
MaxSwitch == 2

NaN == "NaN"

VARIABLES
    pos_call,   \* the position assigner's last call: function and arguments
    pos_ret,    \* what that call returned or raised
    data,       \* the caller's observation table (the DataFrame object)
    call,       \* the dice handler's last call: function and arguments
    ret,        \* the handler's outcome: preprocessing status, warning, geometry,
                \* and the figure with the status of building it
    base,       \* the geometry preprocessing returned, before any switch
    nSwitch,    \* how often the axis-switch transform was applied to ret
    prev,       \* the outcome of the call before, once the call was repeated
    ord_call,   \* the category orderer's last call: function and arguments
    ord_ret,    \* what that call returned or raised
    binary_matrix,  \* the presence matrix that call built for clustering
    domino,     \* the caller's domino observations: log-fold-change, p-value
    enc_call,   \* the quantitative encoder's last call: observations, settings
    enc_ret,    \* the encoded marks it returned
    _backend,   \* the package's selected backend (module global of pydiceplot)
    bk_call,    \* the package's last call: set_backend or plot, and arguments
    bk_ret,     \* what that call returned or raised, and the renderer it used
    rendered,   \* the renderers handed to a plot function so far, oldest first
    dom_data,   \* the caller's domino table: feature, cell type, contrast
    dom_call,   \* plot_domino's last call: its arguments
    dom_ret     \* what that call returned or raised: the figure's rectangles

posVars == <<pos_call, pos_ret>>

diceVars == <<data, call, ret, base, nSwitch, prev>>

ordVars == <<ord_call, ord_ret, binary_matrix>>

encVars == <<domino, enc_call, enc_ret>>

bkVars == <<_backend, bk_call, bk_ret, rendered>>

domVars == <<dom_data, dom_call, dom_ret>>

\* What the actions of one component leave alone: the other components.
othersDice == <<posVars, ordVars, encVars, bkVars, domVars>>

othersPos == <<diceVars, ordVars, encVars, bkVars, domVars>>

othersOrd == <<posVars, encVars, bkVars, domVars>>

othersEnc == <<diceVars, posVars, ordVars, bkVars, domVars>>

othersBk == <<diceVars, posVars, ordVars, encVars, domVars>>

othersDom == <<diceVars, posVars, ordVars, encVars, bkVars>>

vars == <<pos_call, pos_ret, data, call, ret, base, nSwitch, prev, ord_call, ord_ret,
          binary_matrix, domino, enc_call, enc_ret, _backend, bk_call, bk_ret, rendered,
          dom_data, dom_call, dom_ret>>

\* ------------------------------------------------------- small helpers
Range(s) == {s[i] : i \in DOMAIN s}

\* The element of a one-element set.  Only({e(x) : x \in {v}}) is e(v) with v
\* evaluated once, as a local variable of the code is.
Only(S) == CHOOSE r \in S : TRUE

Prefix(s, n) == [i \in 1..n |-> s[i]]

Max(S) == CHOOSE m \in S : \A x \in S : x <= m

Min(S) == CHOOSE m \in S : \A x \in S : m <= x

\* dict.keys() of the color maps the position assigner is called with.
KeyUniverse == <<"c", "b_c", "v3", "v4", "v5", "v6", "v7", "v8">>

ColorMaps == {Prefix(KeyUniverse, n) : n \in 0..MaxKeys}

\* ------------------------------------------------- sub-cell positions
\* A mutation of the lookup table: two pips of the 5-face coincide.
positions_dict_coinciding(n) ==
    CASE n = 1 -> << <<0, 0>> >>
      [] n = 2 -> << <<-2, 0>>, <<2, 0>> >>
      [] n = 3 -> << <<-2, -2>>, <<0, 2>>, <<2, -2>> >>
      [] n = 4 -> << <<-2, -2>>, <<-2, 2>>, <<2, -2>>, <<2, 2>> >>
      [] n = 5 -> << <<-2, -2>>, <<-2, 2>>, <<-2, 2>>, <<2, -2>>, <<2, 2>> >>
      [] n = 6 -> << <<-2, -3>>, <<-2, 0>>, <<-2, 3>>, <<2, -3>>, <<2, 0>>, <<2, 3>> >>

\* A mutation of the lookup table: the 6-face reaches out to 0.5.
positions_dict_wide(n) ==
    CASE n = 1 -> << <<0, 0>> >>
      [] n = 2 -> << <<-2, 0>>, <<2, 0>> >>
      [] n = 3 -> << <<-2, -2>>, <<0, 2>>, <<2, -2>> >>
      [] n = 4 -> << <<-2, -2>>, <<-2, 2>>, <<2, -2>>, <<2, 2>> >>
      [] n = 5 -> << <<-2, -2>>, <<-2, 2>>, <<0, 0>>, <<2, -2>>, <<2, 2>> >>
      [] n = 6 -> << <<-2, -5>>, <<-2, 0>>, <<-2, 5>>, <<2, -5>>, <<2, 0>>, <<2, 5>> >>

\* positions_dict of calculate_var_positions, in tenths.
positions_dict(n) ==
    CASE n = 1 -> << <<0, 0>> >>
      [] n = 2 -> << <<-2, 0>>, <<2, 0>> >>
      [] n = 3 -> << <<-2, -2>>, <<0, 2>>, <<2, -2>> >>
      [] n = 4 -> << <<-2, -2>>, <<-2, 2>>, <<2, -2>>, <<2, 2>> >>
      [] n = 5 -> << <<-2, -2>>, <<-2, 2>>, <<0, 0>>, <<2, -2>>, <<2, 2>> >>
      [] n = 6 -> << <<-2, -3>>, <<-2, 0>>, <<-2, 3>>, <<2, -3>>, <<2, 0>>, <<2, 3>> >>

\* The keys positions_dict has: a lookup of any other key raises KeyError.
positions_dict_keys == 1..6

\* The var_positions frame: one row (var, x_offset, y_offset) per key.
VarFrame(keys, positions) ==
    [i \in 1..Len(keys) |->
        [var |-> keys[i], x_offset |-> positions[i][1], y_offset |-> positions[i][2]]]

Raised(kind) == [status |-> kind, var_positions |-> <<>>]

Returned(frame) == [status |-> "ok", var_positions |-> frame]

\* calculate_var_positions(cat_c_colors, max_dice_sides)
calculate_var_positions(cat_c_colors, max_dice_sides) ==
    LET num_vars == Len(cat_c_colors) IN
    IF num_vars > max_dice_sides THEN Raised("ValueError")
    ELSE IF num_vars \notin positions_dict_keys THEN Raised("KeyError")
    ELSE Returned(VarFrame(cat_c_colors, positions_dict(num_vars)))

\* The x_offset / y_offset lists of create_var_positions, zipped, in tenths.
create_var_offsets(num_vars) ==
    CASE num_vars = 3 -> << <<0, 0>>, <<-2, 2>>, <<2, -2>> >>
      [] num_vars = 4 -> << <<-2, 2>>, <<2, 2>>, <<-2, -2>>, <<2, -2>> >>
      [] num_vars = 5 -> << <<0, 0>>, <<-2, 2>>, <<2, 2>>, <<-2, -2>>, <<2, -2>> >>
      [] num_vars = 6 -> << <<-2, 2>>, <<2, 2>>, <<-2, 0>>, <<2, 0>>, <<-2, -2>>, <<2, -2>> >>

\* create_var_positions(cat_c_colors, num_vars): the frame is built from a
\* 'var' column of len(cat_c_colors) items and offset columns of num_vars
\* items; pandas raises ValueError when the lengths differ.
create_var_positions(cat_c_colors, num_vars) ==
    IF num_vars \notin 3..6 THEN Raised("ValueError")
    ELSE IF Len(cat_c_colors) # num_vars THEN Raised("ValueError")
    ELSE Returned(VarFrame(cat_c_colors, create_var_offsets(num_vars)))

\* ------------------------------------------------ observation tables
\* The labels an observation table draws from.  Each universe is listed in
\* Python's ascending string order, which sorted() uses.
PrimaryLabels == <<"A1", "A2", "A3">>

SecondaryLabels == <<"a", "a_b">>

TertiaryLabels == <<"b_c", "c">>

GroupLabels == <<"g1", "g2">>

\* The column names the caller passes as cat_a, cat_b, cat_c and group.
cat_a == "CellType"

cat_b == "Pathway"

cat_c == "PathologyVariable"

group == "Group"

Rows == [a : Range(PrimaryLabels), b : Range(SecondaryLabels),
         c : Range(TertiaryLabels), g : Range(GroupLabels)]

\* cat_c_colors and group_colors of the dice calls, as key lists.
DiceColorMaps == { <<"c", "b_c">>, <<"c", "v3">>, Prefix(KeyUniverse, 7) }

GroupColorMaps == { <<"g1", "g2">>, <<"g1">> }

\* plot_dice's default max_dice_sides.
DefaultMaxDiceSides == 6

\* ----------------------------------------------------- list helpers
Indices(s, P(_)) == {i \in DOMAIN s : P(s[i])}

RECURSIVE SelectIdx(_, _, _)
\* The items of s at the indices in keep, in order, from position i on.
SelectIdx(s, keep, i) ==
    IF i > Len(s) THEN <<>>
    ELSE (IF i \in keep THEN <<s[i]>> ELSE <<>>) \o SelectIdx(s, keep, i + 1)

\* Position of v in the list s (its category code + 1); 0 when absent.
IndexOf(s, v) ==
    IF \E i \in DOMAIN s : s[i] = v
    THEN CHOOSE i \in DOMAIN s : s[i] = v /\ \A j \in 1..(i - 1) : s[j] # v
    ELSE 0

Reverse(s) == [i \in 1..Len(s) |-> s[Len(s) + 1 - i]]

\* Series.unique(): the distinct values in the order of first appearance.
unique(values) ==
    SelectIdx(values, {i \in DOMAIN values : \A j \in 1..(i - 1) : values[j] # values[i]}, 1)

\* sorted(series.unique()) for values drawn from the sorted list universe.
SortedUnique(values, universe) ==
    SelectIdx(universe, {i \in DOMAIN universe : universe[i] \in values}, 1)

\* pd.Categorical(values, categories=...): a value outside the categories
\* becomes NaN.
Categorical(v, categories) == IF v \in Range(categories) THEN v ELSE NaN

\* ------------------------------------------------------ prepare_data
\* prepare_data with cat_b's categories cut down to the first of them.
prepare_data_head(rows, cat_c_colors, group_colors) ==
    [ rows |-> [i \in DOMAIN rows |->
                   [a |-> rows[i].a, b |-> rows[i].b,
                    c |-> Categorical(rows[i].c, cat_c_colors),
                    g |-> Categorical(rows[i].g, group_colors)]],
      cat_a_order |-> SortedUnique({rows[i].a : i \in DOMAIN rows}, PrimaryLabels),
      cat_b_order |-> Prefix(SortedUnique({rows[i].b : i \in DOMAIN rows},
                                          SecondaryLabels), 1) ]

\* prepare_data: the four columns become ordered categoricals, cat_a and
\* cat_b over their sorted unique values, cat_c and group over the color
\* maps' keys.
prepare_data(rows, cat_c_colors, group_colors) ==
    [ rows |-> [i \in DOMAIN rows |->
                   [a |-> rows[i].a, b |-> rows[i].b,
                    c |-> Categorical(rows[i].c, cat_c_colors),
                    g |-> Categorical(rows[i].g, group_colors)]],
      cat_a_order |-> SortedUnique({rows[i].a : i \in DOMAIN rows}, PrimaryLabels),
      cat_b_order |-> SortedUnique({rows[i].b : i \in DOMAIN rows}, SecondaryLabels) ]

\* -------------------------------------------------- create_binary_matrix
\* grouped['combined']: the column key of a (cat_b, cat_c) combination.
Combined(b, c) == b \o "_" \o c

\* groupby([cat_a, cat_b, cat_c])['present'].sum() over categorical keys
\* (observed=False, pandas' default for this code): one entry per
\* combination of the categories, 0 where nothing was observed; a NaN key
\* is in no group.
PresentSum(rows, a, b, c) ==
    Cardinality({i \in DOMAIN rows : rows[i].a = a /\ rows[i].b = b /\ rows[i].c = c})

NoMatrix == [status |-> "none", index |-> <<>>, columns |-> {}, values |-> <<>>]

\* create_binary_matrix: pivot(index=cat_a, columns='combined') raises
\* ValueError when two grouped rows of one cat_a share a column key;
\* otherwise the cell of (a, key) is the sum of 'present'.
create_binary_matrix(rows, a_cats, b_cats, c_cats) ==
    LET pairs == Range(b_cats) \X Range(c_cats)
        keys  == {Combined(p[1], p[2]) : p \in pairs}
        clash == \E p, q \in pairs : p # q /\ Combined(p[1], p[2]) = Combined(q[1], q[2])
    IN  IF Len(a_cats) > 0 /\ clash
        THEN [status |-> "ValueError", index |-> <<>>, columns |-> {}, values |-> <<>>]
        ELSE [status |-> "ok",
              index |-> a_cats,
              columns |-> keys,
              values |-> [i \in DOMAIN a_cats |->
                  [k \in keys |->
                      LET p == CHOOSE q \in pairs : Combined(q[1], q[2]) = k
                      IN  PresentSum(rows, a_cats[i], p[1], p[2])]]]

\* ------------------------------------------------- perform_clustering
\* Distances are exact fractions <<numerator, denominator>>; the linkage
\* works on squared distances, which order the same way as distances.
RECURSIVE Gcd(_, _)
Gcd(m, n) == IF n = 0 THEN m ELSE Gcd(n, m % n)

Frac(n, d) == LET g == Gcd(n, d) IN IF g = 0 THEN <<0, 1>> ELSE <<n \div g, d \div g>>

Less(p, q) == p[1] * q[2] < q[1] * p[2]

\* scipy's Jaccard distance of two numeric rows, squared: the share of the
\* columns where either row is non-zero in which the rows differ; 0 when
\* both rows are all zero.
jaccard(u, v, columns) ==
    LET nz == {k \in columns : u[k] # 0 \/ v[k] # 0}
        ne == {k \in nz : u[k] # v[k]}
    IN  IF nz = {} THEN <<0, 1>>
        ELSE Frac(Cardinality(ne) * Cardinality(ne), Cardinality(nz) * Cardinality(nz))

\* pdist(binary_matrix, metric='jaccard'), as a symmetric matrix.
pdist(matrix) ==
    [i \in DOMAIN matrix.values |-> [j \in DOMAIN matrix.values |->
        IF i = j THEN <<0, 1>>
        ELSE jaccard(matrix.values[i], matrix.values[j], matrix.columns)]]

\* Ward's Lance-Williams update of linkage(method='ward'), on squares:
\* ((ni+nx) d(i,x)^2 + (ni+ny) d(i,y)^2 - ni d(x,y)^2) / (nx+ny+ni).
ward(d_xi, d_yi, d_xy, nx, ny, ni) ==
    Frac((ni + nx) * d_xi[1] * d_yi[2] * d_xy[2]
           + (ni + ny) * d_yi[1] * d_xi[2] * d_xy[2]
           - ni * d_xy[1] * d_xi[2] * d_yi[2],
         (nx + ny + ni) * d_xi[2] * d_yi[2] * d_xy[2])

RECURSIVE ScanNearest(_, _, _, _, _)
\* nn_chain's scan "for i in range(n)": the first strictly nearer cluster
\* replaces the current minimum.
ScanNearest(D, size, x, i, best) ==
    IF i > Len(size) THEN best
    ELSE IF size[i] = 0 \/ i = x THEN ScanNearest(D, size, x, i + 1, best)
    ELSE IF ~best.has \/ Less(D[x][i], best.min)
         THEN ScanNearest(D, size, x, i + 1, [has |-> TRUE, min |-> D[x][i], y |-> i])
         ELSE ScanNearest(D, size, x, i + 1, best)

RECURSIVE GrowChain(_, _, _)
\* nn_chain's inner loop: follow nearest neighbours, preferring the
\* previous chain element, until two clusters are mutual neighbours.
GrowChain(D, size, chain) ==
    LET len  == Len(chain)
        x    == chain[len]
        init == IF len > 1
                THEN [has |-> TRUE, min |-> D[x][chain[len - 1]], y |-> chain[len - 1]]
                ELSE [has |-> FALSE, min |-> <<0, 1>>, y |-> 0]
        Follow(best) ==
            IF len > 1 /\ best.y = chain[len - 1]
            THEN [chain |-> SubSeq(chain, 1, len - 2), x |-> x, y |-> best.y,
                  min |-> best.min]
            ELSE GrowChain(D, size, Append(chain, best.y))
    IN  Only({Follow(best) : best \in {ScanNearest(D, size, x, 1, init)}})

RECURSIVE nn_chain(_, _, _, _)
\* scipy's nn_chain: n - 1 merges (x, y, distance) with x < y; cluster y
\* becomes the merged cluster and x is dropped.
nn_chain(D, size, chain, Z) ==
    IF Len(Z) >= Len(size) - 1 THEN Z
    ELSE
    LET first == CHOOSE i \in DOMAIN size :
                     size[i] > 0 /\ \A j \in 1..(i - 1) : size[j] = 0
        Merge(m) ==
            LET x     == IF m.x < m.y THEN m.x ELSE m.y
                y     == IF m.x < m.y THEN m.y ELSE m.x
                nx    == size[x]
                ny    == size[y]
                size2 == [size EXCEPT ![x] = 0, ![y] = nx + ny]
                upd(i) == ward(D[i][x], D[i][y], m.min, nx, ny, size2[i])
                D2    == [i \in DOMAIN D |-> [j \in DOMAIN D |->
                             IF j = y /\ i # y /\ size2[i] # 0 THEN upd(i)
                             ELSE IF i = y /\ j # y /\ size2[j] # 0 THEN upd(j)
                             ELSE D[i][j]]]
            IN  [D |-> D2, size |-> size2, chain |-> m.chain,
                 Z |-> Append(Z, [x |-> x, y |-> y, dist |-> m.min])]
        start == IF chain = <<>> THEN <<first>> ELSE chain
    IN  Only({nn_chain(s.D, s.size, s.chain, s.Z) :
                 s \in {Merge(m) : m \in {GrowChain(D, size, start)}}})

RECURSIVE InsertByDist(_, _)
\* Stable insertion of merge z into the list sorted by distance.
InsertByDist(sorted, z) ==
    IF sorted = <<>> THEN <<z>>
    ELSE IF Less(z.dist, sorted[1].dist) THEN <<z>> \o sorted
    ELSE <<sorted[1]>> \o InsertByDist(Tail(sorted), z)

RECURSIVE SortByDist(_, _)
\* np.argsort(Z[:, 2], kind='mergesort'): a stable sort of the merges.
SortByDist(Z, k) ==
    IF k = 0 THEN <<>>
    ELSE Only({InsertByDist(sorted, Z[k]) : sorted \in {SortByDist(Z, k - 1)}})

RECURSIVE label(_, _, _, _)
\* scipy's label(): replace each merge's operands by the ids of the
\* clusters they now belong to (leaves 1..n, the k-th merge is n + k), the
\* smaller id first.  root maps each leaf to its current cluster.
label(Z, root, k, out) ==
    IF k > Len(Z) THEN out
    ELSE
    LET xr == root[Z[k].x]
        yr == root[Z[k].y]
        id == Len(root) + k
        merged == [root |-> [i \in DOMAIN root |->
                                IF root[i] \in {xr, yr} THEN id ELSE root[i]],
                   out |-> Append(out, IF xr < yr THEN <<xr, yr>> ELSE <<yr, xr>>)]
    IN  Only({label(Z, s.root, k + 1, s.out) : s \in {merged}})

\* linkage(distance_matrix, method='ward')
linkage(D) ==
    LET n == Len(D)
        Sorted(Z) == SortByDist(Z, Len(Z))
    IN  Only({label(sorted, [i \in 1..n |-> i], 1, <<>>) :
                 sorted \in {Sorted(Z) : Z \in {nn_chain(D, [i \in 1..n |-> 1], <<>>, <<>>)}}})

RECURSIVE Leaves(_, _, _)
\* dendrogram(...)['ivl'] as leaf numbers: the left operand's leaves, then
\* the right operand's.
Leaves(Z, n, id) ==
    IF id <= n THEN <<id>>
    ELSE Leaves(Z, n, Z[id - n][1]) \o Leaves(Z, n, Z[id - n][2])

dendrogram(Z, labels) ==
    LET n == Len(labels) IN
    Only({[i \in 1..n |-> labels[leaves[i]]] : leaves \in {Leaves(Z, n, 2 * n - 1)}})

\* dendro['ivl'][::-1] of the rows of a presence matrix:
\* pdist, linkage, dendrogram, reversed.
ClusterOrder(binary_matrix_df) ==
    LET cell_types == binary_matrix_df.index IN
    Only({Reverse(dendrogram(Z, cell_types)) :
             Z \in {linkage(distance_matrix) :
                       distance_matrix \in {pdist(binary_matrix_df)}}})

\* perform_clustering of plots/_utils.py: the same without the single-row
\* guard; linkage() raises ValueError on the empty distance matrix of a
\* one-row matrix.
plots_utils_perform_clustering(rows, a_cats, b_cats, c_cats) ==
    LET Order(binary_matrix_df) ==
            IF binary_matrix_df.status # "ok"
            THEN [status |-> binary_matrix_df.status, clustered |-> FALSE, order |-> <<>>]
            ELSE IF Len(binary_matrix_df.index) > 1
            THEN [status |-> "ok", clustered |-> TRUE,
                  order |-> ClusterOrder(binary_matrix_df)]
            ELSE [status |-> "ValueError", clustered |-> TRUE, order |-> <<>>]
    IN  Only({Order(binary_matrix_df) :
                 binary_matrix_df \in {create_binary_matrix(rows, a_cats, b_cats, c_cats)}})

\* perform_clustering (backends/_utils.py): cluster the presence matrix's
\* rows and reverse the leaf order; a matrix of one row is returned as is.
perform_clustering(rows, a_cats, b_cats, c_cats) ==
    LET Order(binary_matrix_df) ==
            IF binary_matrix_df.status # "ok"
            THEN [status |-> binary_matrix_df.status, clustered |-> FALSE, order |-> <<>>]
            ELSE IF Len(binary_matrix_df.index) > 1
            THEN [status |-> "ok", clustered |-> TRUE,
                  order |-> ClusterOrder(binary_matrix_df)]
            ELSE [status |-> "ok", clustered |-> FALSE, order |-> binary_matrix_df.index]
    IN  Only({Order(binary_matrix_df) :
                 binary_matrix_df \in {create_binary_matrix(rows, a_cats, b_cats, c_cats)}})

\* ------------------------------------------------------ data frames
Frame(cols, rows) == [cols |-> cols, rows |-> rows]

HasCol(frame, name) == \E i \in DOMAIN frame.cols : frame.cols[i] = name

\* row[name]: the value in the first column of that name.
Get(frame, row, name) == row[IndexOf(frame.cols, name)]

\* DataFrame.rename(columns=mapping): every column name that is a key of
\* the mapping is replaced by its value, all at once; the values stay.
Rename(frame, mapping) ==
    Frame([i \in DOMAIN frame.cols |->
              IF frame.cols[i] \in DOMAIN mapping THEN mapping[frame.cols[i]]
              ELSE frame.cols[i]],
          frame.rows)

PlotCols == <<cat_a, cat_b, cat_c, group, "present", "var", "x_offset", "y_offset",
              "x_num", "y_num", "x_pos", "y_pos">>

BoxCols == <<cat_a, cat_b, group, "x_num", "y_num", "x_min", "x_max", "y_min", "y_max">>

\* Lexicographic order of the sort keys <<cat_a code, group code, cat_b code>>.
KeyLess(k, l) ==
    \/ k[1] < l[1]
    \/ k[1] = l[1] /\ k[2] < l[2]
    \/ k[1] = l[1] /\ k[2] = l[2] /\ k[3] < l[3]

RECURSIVE InsertByKey(_, _)
InsertByKey(sorted, e) ==
    IF sorted = <<>> THEN <<e>>
    ELSE IF KeyLess(e.key, sorted[1].key) THEN <<e>> \o sorted
    ELSE <<sorted[1]>> \o InsertByKey(Tail(sorted), e)

RECURSIVE SortByKey(_, _)
SortByKey(entries, k) ==
    IF k = 0 THEN <<>>
    ELSE Only({InsertByKey(sorted, entries[k]) : sorted \in {SortByKey(entries, k - 1)}})

\* The code of a categorical value for sorting; NaN sorts last.
SortCode(v, categories) ==
    IF v = NaN THEN Len(categories) + 1 ELSE IndexOf(categories, v)

\* sort_values(by=[cat_a, group, cat_b]): a stable sort of the records by
\* the categorical codes of the three columns.
sort_values(recs, cat_a_order, group_colors, cat_b_order) ==
    LET entries == [i \in DOMAIN recs |->
            [key |-> << SortCode(recs[i].a, cat_a_order),
                        SortCode(recs[i].g, group_colors),
                        SortCode(recs[i].b, cat_b_order) >>,
             rec |-> recs[i]]]
    IN  Only({[i \in DOMAIN sorted |-> sorted[i].rec] :
                 sorted \in {SortByKey(entries, Len(entries))}})

\* -------------------------------------------------- the caller's table
\* A DataFrame the caller built: four object columns, no categories.
Table(rows) ==
    [ cols |-> <<cat_a, cat_b, cat_c, group>>,
      rows |-> rows,
      categories |-> [a |-> <<>>, b |-> <<>>, c |-> <<>>, g |-> <<>>],
      categorical |-> FALSE ]

\* ------------------------------------------------- dice preprocessing
\* generate_plot_dimensions(n_x, n_y), in pixels.
box_size == 50

margin_l == 150

margin_r == 300

margin_t == 100

margin_b == 200

generate_plot_dimensions(n_x, n_y) ==
    [ plot_width |-> box_size * n_x + margin_l + margin_r,
      plot_height |-> box_size * n_y + margin_t + margin_b,
      margins |-> [l |-> margin_l, r |-> margin_r, t |-> margin_t, b |-> margin_b] ]

\* The cat_b categories with more than one group:
\* groupby(cat_b)[group].nunique() > 1, in category order; nunique does not
\* count NaN.
group_check(rows, cat_b_order) ==
    SelectIdx(cat_b_order,
              {k \in DOMAIN cat_b_order :
                  Cardinality({rows[i].g : i \in {j \in DOMAIN rows :
                                  rows[j].b = cat_b_order[k]}} \ {NaN}) > 1},
              1)

\* data[[cat_a, cat_b, group]].drop_duplicates(): the first row of every
\* distinct (cat_a, cat_b, group) triple, in row order.
box_records(rows) ==
    SelectIdx(rows,
              {i \in DOMAIN rows : \A j \in 1..(i - 1) :
                  <<rows[j].a, rows[j].b, rows[j].g>> # <<rows[i].a, rows[i].b, rows[i].g>>},
              1)

\* A mutation of the box frame: boxes of half-width 0.2 instead of 0.4.
box_frame_narrow(rows, cat_a_order, cat_b_order, group_colors) ==
    LET Boxes(recs) ==
            Frame(BoxCols,
                  [i \in DOMAIN recs |->
                      LET x_num == IndexOf(cat_a_order, recs[i].a)
                          y_num == IndexOf(cat_b_order, recs[i].b)
                      IN  << recs[i].a, recs[i].b, recs[i].g, x_num, y_num,
                             10 * x_num - 2, 10 * x_num + 2,
                             10 * y_num - 2, 10 * y_num + 2 >>])
    IN  Only({Boxes(recs) :
                 recs \in {sort_values(box_records(rows), cat_a_order, group_colors,
                                       cat_b_order)}})

\* The box_data frame of preprocess_dice_plot / prepare_box_data.
box_frame(rows, cat_a_order, cat_b_order, group_colors) ==
    LET Boxes(recs) ==
            Frame(BoxCols,
                  [i \in DOMAIN recs |->
                      LET x_num == IndexOf(cat_a_order, recs[i].a)
                          y_num == IndexOf(cat_b_order, recs[i].b)
                      IN  << recs[i].a, recs[i].b, recs[i].g, x_num, y_num,
                             10 * x_num - 4, 10 * x_num + 4,
                             10 * y_num - 4, 10 * y_num + 4 >>])
    IN  Only({Boxes(recs) :
                 recs \in {sort_values(box_records(rows), cat_a_order, group_colors,
                                       cat_b_order)}})

\* The plot_data frame: data merged with var_positions on cat_c (how=
\* 'left'), rows without an offset dropped, grid index and position added.
plot_frame(rows, var_positions, cat_a_order, cat_b_order, group_colors) ==
    LET vars_ == [i \in DOMAIN var_positions |-> var_positions[i].var]
        kept == SelectIdx(rows, {i \in DOMAIN rows : rows[i].c \in Range(vars_)}, 1)
        Marks(recs) ==
            Frame(PlotCols,
                  [i \in DOMAIN recs |->
                      LET pos == var_positions[IndexOf(vars_, recs[i].c)]
                          x_num == IndexOf(cat_a_order, recs[i].a)
                          y_num == IndexOf(cat_b_order, recs[i].b)
                      IN  << recs[i].a, recs[i].b, recs[i].c, recs[i].g, 1, pos.var,
                             pos.x_offset, pos.y_offset, x_num, y_num,
                             10 * x_num + pos.x_offset, 10 * y_num + pos.y_offset >>])
    IN  Only({Marks(recs) :
                 recs \in {sort_values(kept, cat_a_order, group_colors, cat_b_order)}})

NoWarning == [issued |-> FALSE, names |-> <<>>]

NoFrame == Frame(<<>>, <<>>)

NoDimensions == [plot_width |-> 0, plot_height |-> 0,
                 margins |-> [l |-> 0, r |-> 0, t |-> 0, b |-> 0]]

\* What preprocess_dice_plot leaves behind when it raises after `warning`.
Failed(kind, warning, table) ==
    [ status |-> kind, warning |-> warning, plot_data |-> NoFrame, box_data |-> NoFrame,
      cat_a_order |-> <<>>, cat_b_order |-> <<>>, var_positions |-> <<>>,
      plot_dimensions |-> NoDimensions, data |-> table ]

\* data['present'] = 1: the column is added, or overwritten when it exists.
assign_present(cols) ==
    IF "present" \in Range(cols) THEN cols ELSE Append(cols, "present")

\* A re-assignment of the cat_a column that leaves every row on one label.
recategorize_collapsing(rows, cat_a_order) ==
    [i \in DOMAIN rows |-> [rows[i] EXCEPT !.a = cat_a_order[1]]]

\* data[cat_a] = pd.Categorical(data[cat_a], categories=cat_a_order): the
\* values of the caller's column over the clustered categories.
recategorize(rows, cat_a_order) ==
    [i \in DOMAIN rows |-> [rows[i] EXCEPT !.a = Categorical(@, cat_a_order)]]

\* preprocess_dice_plot(data, cat_a, cat_b, cat_c, group, cat_c_colors,
\* group_colors, max_dice_sides).  `data` in the result is the caller's
\* table as the call leaves it: the function assigns to its columns.
preprocess_dice_plot(table, cat_c_colors, group_colors, max_dice_sides) ==
    LET \* from the clustering on: order cat_a, build the frames
        Frames(prep, warning, present, var_positions, clustering) ==
            LET cat_a_order == clustering.order IN
            IF clustering.status # "ok"
            THEN Failed(clustering.status, warning, present)
            ELSE [ status |-> "ok",
                   warning |-> warning,
                   plot_data |-> plot_frame(prep.rows, var_positions.var_positions,
                                            cat_a_order, prep.cat_b_order, group_colors),
                   box_data |-> box_frame(prep.rows, cat_a_order, prep.cat_b_order,
                                          group_colors),
                   cat_a_order |-> cat_a_order,
                   cat_b_order |-> prep.cat_b_order,
                   var_positions |-> var_positions.var_positions,
                   plot_dimensions |-> generate_plot_dimensions(Len(cat_a_order),
                                                                Len(prep.cat_b_order)),
                   data |-> [present EXCEPT
                                !.rows = recategorize(prep.rows, cat_a_order),
                                !.categories.a = cat_a_order] ]
        \* from the group check on: warn, lay out the dice sides, cluster
        Checked(prep, multi) ==
            LET cats == [a |-> prep.cat_a_order, b |-> prep.cat_b_order,
                         c |-> cat_c_colors, g |-> group_colors]
                prepared == [table EXCEPT !.rows = prep.rows, !.categories = cats,
                                          !.categorical = TRUE]
                present == [prepared EXCEPT !.cols = assign_present(table.cols)]
                warning == [issued |-> multi # <<>>, names |-> multi]
                Positioned(var_positions) ==
                    IF var_positions.status # "ok"
                    THEN Failed(var_positions.status, warning, prepared)
                    ELSE Only({Frames(prep, warning, present, var_positions, clustering) :
                                  clustering \in {perform_clustering(prep.rows,
                                                      prep.cat_a_order, prep.cat_b_order,
                                                      cat_c_colors)}})
            IN  Only({Positioned(var_positions) :
                         var_positions \in {calculate_var_positions(cat_c_colors,
                                                                    max_dice_sides)}})
        Prepared(prep) ==
            Only({Checked(prep, multi) : multi \in {group_check(prep.rows, prep.cat_b_order)}})
    IN  Only({Prepared(prep) :
                 prep \in {prepare_data(table.rows, cat_c_colors, group_colors)}})

\* ------------------------------------------------------------ plot_dice
Geometry(cat_a_order, cat_b_order, plot_data, box_data) ==
    [ cat_a_order |-> cat_a_order, cat_b_order |-> cat_b_order,
      plot_data |-> plot_data, box_data |-> box_data ]

\* The column mappings of the axis switch (plot_dice, "Handle axis
\* switching").
plot_rename == [n \in {"x_num", "y_num", "x_pos", "y_pos"} |->
                   CASE n = "x_num" -> "y_num" [] n = "y_num" -> "x_num"
                     [] n = "x_pos" -> "y_pos" [] n = "y_pos" -> "x_pos"]

box_rename == [n \in {"x_num", "y_num", "x_min", "x_max"} |->
                  CASE n = "x_num" -> "y_num" [] n = "y_num" -> "x_num"
                    [] n = "x_min" -> "y_min" [] n = "x_max" -> "y_max"]

\* The axis-switch transform: the two orders change places and the frames'
\* columns are renamed.
switch_axes(g) ==
    Geometry(g.cat_b_order, g.cat_a_order,
             Rename(g.plot_data, plot_rename), Rename(g.box_data, box_rename))

NoFigure == [status |-> "none", shapes |-> <<>>, traces |-> <<>>, width |-> 0, height |-> 0]

\* The figure plot_dice builds: one rectangle per box row, filled with the
\* color of the row's group (white when the group has none), and one
\* scatter trace per key of cat_c_colors.  Reading a column the frame does
\* not have raises KeyError.
render(g, cat_c_colors, dims) ==
    LET box == g.box_data
        marks == g.plot_data
        box_ok == box.rows = <<>> \/
                  \A n \in {"x_min", "y_min", "x_max", "y_max", group} : HasCol(box, n)
        marks_ok == \A n \in {cat_c, "x_pos", "y_pos"} : HasCol(marks, n)
    IN  IF ~(box_ok /\ marks_ok)
        THEN [NoFigure EXCEPT !.status = "KeyError"]
        ELSE
        [ status |-> "ok",
          shapes |-> [i \in DOMAIN box.rows |->
              [ x0 |-> Get(box, box.rows[i], "x_min"), y0 |-> Get(box, box.rows[i], "y_min"),
                x1 |-> Get(box, box.rows[i], "x_max"), y1 |-> Get(box, box.rows[i], "y_max"),
                fillcolor |-> IF Get(box, box.rows[i], group) = NaN THEN "#FFFFFF"
                              ELSE Get(box, box.rows[i], group) ]],
          traces |-> [k \in DOMAIN cat_c_colors |->
              LET var_data == SelectIdx(marks.rows,
                                  {i \in DOMAIN marks.rows :
                                      Get(marks, marks.rows[i], cat_c) = cat_c_colors[k]}, 1)
              IN  [ name |-> cat_c_colors[k],
                    xy |-> [i \in DOMAIN var_data |->
                               << Get(marks, var_data[i], "x_pos"),
                                  Get(marks, var_data[i], "y_pos") >>] ]],
          width |-> dims.plot_width,
          height |-> dims.plot_height ]

NoGeometry == Geometry(<<>>, <<>>, NoFrame, NoFrame)

NoCall == [fn |-> "none", rows |-> <<>>, fields |-> <<>>, cat_c_colors |-> <<>>,
           group_colors |-> <<>>,
           max_dice_sides |-> 0, switch_axis |-> FALSE]

NoRet == [ status |-> "none", warning |-> NoWarning, geometry |-> NoGeometry,
           var_positions |-> <<>>, plot_dimensions |-> NoDimensions, fig |-> NoFigure ]

\* plot_dice(data, cat_a, cat_b, cat_c, group, switch_axis, cat_c_colors,
\* group_colors, max_dice_sides): preprocess, switch the axes if asked,
\* build the figure.  The result holds the handler's outcome (ret), the
\* geometry before the switch (base) and the caller's table afterwards.
\* ret.status is the outcome of preprocessing (an exception's name when it
\* raised), ret.fig.status the outcome of building the figure from the
\* geometry.  The backend imports preprocess_dice_plot from ._dice_utils;
\* the function modelled is preprocess_dice_plot of backends/_utils.py.
plot_dice(table, cat_c_colors, group_colors, max_dice_sides, switch_axis) ==
    LET Figure(pre, g0, g) ==
            [ ret |-> [ status |-> "ok", warning |-> pre.warning, geometry |-> g,
                        var_positions |-> pre.var_positions,
                        plot_dimensions |-> pre.plot_dimensions,
                        fig |-> render(g, cat_c_colors, pre.plot_dimensions) ],
              base |-> g0, data |-> pre.data ]
        Switched(pre, g0) ==
            Only({Figure(pre, g0, g) : g \in {IF switch_axis THEN switch_axes(g0) ELSE g0}})
        Preprocessed(pre) ==
            IF pre.status # "ok"
            THEN [ ret |-> [NoRet EXCEPT !.status = pre.status, !.warning = pre.warning],
                   base |-> NoGeometry, data |-> pre.data ]
            ELSE Only({Switched(pre, g0) :
                          g0 \in {Geometry(pre.cat_a_order, pre.cat_b_order,
                                           pre.plot_data, pre.box_data)}})
    IN  Only({Preprocessed(pre) :
                 pre \in {preprocess_dice_plot(table, cat_c_colors, group_colors,
                                               max_dice_sides)}})

\* The field names a caller configures: the four columns of its table, or
\* with one of them replaced by a name the table does not have.
Fields == [a |-> cat_a, b |-> cat_b, c |-> cat_c, g |-> group]

\* group=None, the default of plot_dice's signature: None is the name
\* handed down as the group column.
None == "None"

BadFields == { [Fields EXCEPT ![f] = "Missing"] : f \in {"a", "b", "c", "g"} }
                 \cup { [Fields EXCEPT !.g = None] }

\* The column accesses of prepare_data, in its order (data[cat_a],
\* data[cat_b], data[cat_c], data[group]): the first name that is not a
\* column raises KeyError, after the columns before it were assigned their
\* categoricals.
prepare_data_columns_defaulting(table, fields, cat_c_colors) ==
    [status |-> "ok", data |-> table]

prepare_data_columns(table, fields, cat_c_colors) ==
    LET order == <<"a", "b", "c", "g">>
        absent == {k \in 1..4 : fields[order[k]] \notin Range(table.cols)}
        done == {order[k] : k \in 1..(Min(absent) - 1)}
        rows == table.rows
    IN  IF absent = {} THEN [status |-> "ok", data |-> table]
        ELSE [status |-> "KeyError",
              data |-> [table EXCEPT
                  !.rows = [i \in DOMAIN rows |->
                               [rows[i] EXCEPT
                                   !.c = IF "c" \in done
                                         THEN Categorical(@, cat_c_colors) ELSE @]],
                  !.categories =
                      [a |-> IF "a" \in done
                             THEN SortedUnique({rows[i].a : i \in DOMAIN rows}, PrimaryLabels)
                             ELSE <<>>,
                       b |-> IF "b" \in done
                             THEN SortedUnique({rows[i].b : i \in DOMAIN rows}, SecondaryLabels)
                             ELSE <<>>,
                       c |-> IF "c" \in done THEN cat_c_colors ELSE <<>>,
                       g |-> <<>>],
                  !.categorical = done # {}]]

\* plot_dice called with configured field names.
plot_dice_fields(table, fields, cat_c_colors, group_colors, max_dice_sides, switch_axis) ==
    LET Columns(cols) ==
            IF cols.status # "ok"
            THEN [ ret |-> [NoRet EXCEPT !.status = cols.status],
                   base |-> NoGeometry, data |-> cols.data ]
            ELSE plot_dice(table, cat_c_colors, group_colors, max_dice_sides, switch_axis)
    IN  Only({Columns(cols) : cols \in {prepare_data_columns(table, fields, cat_c_colors)}})

\* ------------------------------------------------- dice pipeline, actions
DiceIdle ==
    /\ data = Table(<<>>)
    /\ call = NoCall
    /\ ret = NoRet
    /\ base = NoGeometry
    /\ nSwitch = 0
    /\ prev = NoRet

PosIdle ==
    /\ pos_call = [fn |-> "none", cat_c_colors |-> <<>>, arg |-> 0]
    /\ pos_ret = Raised("none")

OrdIdle ==
    /\ ord_call = [fn |-> "none", cat_c_colors |-> <<>>, rows |-> <<>>]
    /\ ord_ret = [status |-> "none", clustered |-> FALSE, order |-> <<>>]
    /\ binary_matrix = NoMatrix

EncIdle ==
    /\ domino = <<>>
    /\ enc_call = [fn |-> "none", observations |-> <<>>, logfc_limits |-> <<0, 0>>,
                   min_dot_size |-> 0, max_dot_size |-> 0]
    /\ enc_ret = [status |-> "none", marks |-> <<>>]

BkIdle ==
    /\ _backend = "plotly"
    /\ bk_call = [fn |-> "none", backend |-> "none", plot_type |-> "none"]
    /\ bk_ret = [status |-> "none", renderer |-> "none"]
    /\ rendered = <<>>

DomIdle ==
    /\ dom_data = <<>>
    /\ dom_call = [fn |-> "none", rows |-> <<>>, gene_list |-> <<>>, spacing_factor |-> 0,
                   switch_axis |-> FALSE, contrast_levels |-> <<>>,
                   unique_celltypes |-> <<>>, backend |-> "none"]
    /\ dom_ret = [status |-> "none", shapes |-> <<>>, plot_data |-> <<>>]

Init == DiceIdle /\ PosIdle /\ OrdIdle /\ EncIdle /\ BkIdle /\ DomIdle

\* The caller appends an observation to the table it is building.
AddRow(r) ==
    /\ call.fn = "none"
    /\ ord_call.fn = "none"
    /\ Len(data.rows) < MaxRows
    /\ data' = [data EXCEPT !.rows = Append(data.rows, r)]
    /\ UNCHANGED <<call, ret, base, nSwitch, prev, othersDice>>

\* The caller plots its table (a table of at least one observation).
PlotDice(fields, cat_c_colors, group_colors, switch_axis) ==
    /\ call.fn = "none"
    /\ ord_call.fn = "none"
    /\ Len(data.rows) >= 1
    /\ \E out \in {plot_dice_fields(data, fields, cat_c_colors, group_colors,
                                   DefaultMaxDiceSides, switch_axis)} :
           /\ ret' = out.ret
           /\ base' = out.base
           /\ data' = out.data
           /\ nSwitch' = IF switch_axis /\ out.ret.status = "ok" THEN 1 ELSE 0
    /\ call' = [fn |-> "plot_dice", rows |-> data.rows, fields |-> fields,
                cat_c_colors |-> cat_c_colors,
                group_colors |-> group_colors, max_dice_sides |-> DefaultMaxDiceSides,
                switch_axis |-> switch_axis]
    /\ UNCHANGED <<prev, othersDice>>

\* The switches plot_dice itself applied to the geometry it returned.
OwnSwitches(c, r) == IF c.switch_axis /\ r.status = "ok" THEN 1 ELSE 0

\* The caller repeats its call: the same arguments, the same table object
\* as the call before left it.
PlotDiceAgain ==
    /\ call.fn = "plot_dice"
    /\ prev.status = "none"
    /\ nSwitch = OwnSwitches(call, ret)
    /\ \E out \in {plot_dice_fields(data, call.fields, call.cat_c_colors,
                                   call.group_colors, call.max_dice_sides,
                                   call.switch_axis)} :
           /\ ret' = out.ret
           /\ base' = out.base
           /\ data' = out.data
           /\ nSwitch' = OwnSwitches(call, out.ret)
    /\ prev' = ret
    /\ UNCHANGED <<call, othersDice>>

\* The axis-switch transform applied once more to the geometry plot_dice
\* computed (by a caller that has not repeated the call).
SwitchAxis ==
    /\ call.fn = "plot_dice"
    /\ prev.status = "none"
    /\ ret.status = "ok"
    /\ nSwitch < MaxSwitch
    /\ ret' = [ret EXCEPT !.geometry = switch_axes(ret.geometry)]
    /\ nSwitch' = nSwitch + 1
    /\ UNCHANGED <<data, call, base, prev, othersDice>>

Next ==
    \/ \E r \in Rows : AddRow(r)
    \/ \E cc \in DiceColorMaps, gc \in GroupColorMaps, sw \in BOOLEAN :
           PlotDice(Fields, cc, gc, sw)
    \/ \E f \in BadFields : PlotDice(f, <<"c", "v3">>, <<"g1", "g2">>, FALSE)
    \/ SwitchAxis
    \/ PlotDiceAgain

Spec == Init /\ [][Next]_vars

\* ------------------------------------------- position assigner, actions
PosInit == Init

CalculateVarPositions(keys, mds) ==
    /\ pos_call' = [fn |-> "calculate_var_positions", cat_c_colors |-> keys, arg |-> mds]
    /\ pos_ret' = calculate_var_positions(keys, mds)
    /\ UNCHANGED othersPos

CreateVarPositions(keys, n) ==
    /\ pos_call' = [fn |-> "create_var_positions", cat_c_colors |-> keys, arg |-> n]
    /\ pos_ret' = create_var_positions(keys, n)
    /\ UNCHANGED othersPos

PosNext ==
    \/ \E keys \in ColorMaps, mds \in 0..MaxSides : CalculateVarPositions(keys, mds)
    \/ \E keys \in ColorMaps, n \in 0..MaxSides : CreateVarPositions(keys, n)

SpecPos == PosInit /\ [][PosNext]_vars

\* ------------------------------------------- category orderer, actions
\* perform_clustering of backends/_utils.py, called as preprocess_dice_plot
\* calls it: on the table prepare_data returned, which now also carries the
\* 'present' column.
PerformClustering(cat_c_colors, group_colors) ==
    /\ call.fn = "none"
    /\ ord_call.fn = "none"
    /\ Len(data.rows) >= 1
    /\ \E prep \in {prepare_data(data.rows, cat_c_colors, group_colors)} :
           /\ ord_ret' = perform_clustering(prep.rows, prep.cat_a_order,
                                            prep.cat_b_order, cat_c_colors)
           /\ binary_matrix' = create_binary_matrix(prep.rows, prep.cat_a_order,
                                                    prep.cat_b_order, cat_c_colors)
           /\ data' = [cols |-> Append(data.cols, "present"), rows |-> prep.rows,
                       categories |-> [a |-> prep.cat_a_order, b |-> prep.cat_b_order,
                                       c |-> cat_c_colors, g |-> group_colors],
                       categorical |-> TRUE]
    /\ ord_call' = [fn |-> "perform_clustering", cat_c_colors |-> cat_c_colors,
                    rows |-> data.rows]
    /\ UNCHANGED <<call, ret, base, nSwitch, prev, othersOrd>>

\* perform_clustering of plots/_utils.py, called as dice_plot of
\* pyDicePlot/diceplot.py calls it: the three category columns are
\* categorical, cat_a and cat_b in the order of first appearance.
PlotsUtilsPerformClustering(cat_c_colors) ==
    /\ call.fn = "none"
    /\ ord_call.fn = "none"
    /\ Len(data.rows) >= 1
    /\ \E prep \in {[rows |-> [i \in DOMAIN data.rows |->
                                   [data.rows[i] EXCEPT
                                       !.c = Categorical(@, cat_c_colors)]],
                      cat_a_order |-> unique([i \in DOMAIN data.rows |-> data.rows[i].a]),
                      cat_b_order |-> unique([i \in DOMAIN data.rows |-> data.rows[i].b])]} :
           /\ ord_ret' = plots_utils_perform_clustering(prep.rows, prep.cat_a_order,
                                                        prep.cat_b_order, cat_c_colors)
           /\ binary_matrix' = create_binary_matrix(prep.rows, prep.cat_a_order,
                                                    prep.cat_b_order, cat_c_colors)
           /\ data' = [cols |-> Append(data.cols, "present"), rows |-> prep.rows,
                       categories |-> [a |-> prep.cat_a_order, b |-> prep.cat_b_order,
                                       c |-> cat_c_colors, g |-> <<>>],
                       categorical |-> TRUE]
    /\ ord_call' = [fn |-> "plots._utils.perform_clustering",
                    cat_c_colors |-> cat_c_colors, rows |-> data.rows]
    /\ UNCHANGED <<call, ret, base, nSwitch, prev, othersOrd>>

\* order_cat_b(data, group, cat_b, group_colors) of plots/_utils.py, on a
\* table whose cat_b column is a categorical over cat_b_cats.  The group
\* column becomes a categorical over the reversed keys; size() counts the
\* rows of each (group, cat_b) key, a NaN group being in no key; with
\* observed = FALSE (the groupby default before pandas 3) every combination
\* of the categories is a key, with TRUE only those that occur.  The keys
\* are sorted by (group code, count descending, cat_b code) and the labels
\* taken in the order of first appearance.
order_cat_b(rows, cat_b_cats, group_colors, observed) ==
    LET group_levels == Reverse(group_colors)
        nb == Len(cat_b_cats)
        Count(g, b) ==
            Cardinality({i \in DOMAIN rows :
                            Categorical(rows[i].g, group_levels) = g /\ rows[i].b = b})
        all == [k \in 1..(Len(group_levels) * nb) |->
                   LET gi == ((k - 1) \div nb) + 1
                       bi == ((k - 1) % nb) + 1
                       n  == Count(group_levels[gi], cat_b_cats[bi])
                   IN  [key |-> <<gi, 0 - n, bi>>, rec |-> cat_b_cats[bi], count |-> n]]
        Order(grouped_b) ==
            Only({unique([i \in DOMAIN sorted |-> sorted[i].rec]) :
                     sorted \in {SortByKey(grouped_b, Len(grouped_b))}})
    IN  Only({Order(grouped_b) :
                 grouped_b \in {SelectIdx(all, {k \in DOMAIN all :
                                                   observed => all[k].count > 0}, 1)}})

\* dice_plot of pyDicePlot/diceplot.py orders cat_b: the column is made a
\* categorical over its values in the order of first appearance (line 45),
\* the group column one over the color map's keys (line 57), and
\* order_cat_b is called (line 66).
OrderCatB(group_colors, observed) ==
    /\ call.fn = "none"
    /\ ord_call.fn = "none"
    /\ Len(data.rows) >= 1
    /\ \E cats \in {unique([i \in DOMAIN data.rows |-> data.rows[i].b])} :
           /\ ord_ret' = [status |-> "ok", clustered |-> FALSE,
                          order |-> order_cat_b(data.rows, cats, group_colors, observed)]
           /\ data' = [data EXCEPT
                          !.rows = [i \in DOMAIN data.rows |->
                                       [data.rows[i] EXCEPT
                                           !.g = Categorical(@, group_colors)]],
                          !.categories.b = cats,
                          !.categories.g = Reverse(group_colors),
                          !.categorical = TRUE]
    /\ ord_call' = [fn |-> "order_cat_b", cat_c_colors |-> <<>>, rows |-> data.rows,
                    group_colors |-> group_colors, observed |-> observed]
    /\ UNCHANGED <<binary_matrix, call, ret, base, nSwitch, prev, othersOrd>>

OrdNext ==
    \/ \E r \in Rows : AddRow(r)
    \/ \E cc \in DiceColorMaps, gc \in GroupColorMaps : PerformClustering(cc, gc)
    \/ \E cc \in DiceColorMaps : PlotsUtilsPerformClustering(cc)
    \/ \E gc \in GroupColorMaps, observed \in BOOLEAN : OrderCatB(gc, observed)

SpecOrder == Init /\ [][OrdNext]_vars

\* ------------------------------------ dice_plot of pyDicePlot/diceplot.py
\* The observations of the tables dice_plot is run on: the function needs
\* three tertiary labels in a table to draw anything.
DicePlotRows == [a : {"A1", "A2"}, b : Range(SecondaryLabels),
                 c : {"b_c", "c", "v3"}, g : Range(GroupLabels)]

DicePlotColorMaps == { <<"c", "b_c", "v3">>, <<"c", "v3", "v4">>, <<"c", "v3">> }

\* The rows with cat_a and cat_b re-assigned as categoricals over the two
\* orders: a label outside its order becomes NaN.
reordered(rows, cat_a_order, cat_b_order) ==
    [i \in DOMAIN rows |->
        [rows[i] EXCEPT !.a = Categorical(@, cat_a_order),
                        !.b = Categorical(@, cat_b_order)]]

\* prepare_plot_data of plots/_utils.py: data merged with var_positions on
\* cat_c (how='left': every row is kept, one without an offset gets NaN),
\* grid index = category code + 1 (0 for NaN), position = index + offset.
prepare_plot_data(rows, var_positions, cat_a_order, cat_b_order, group_levels) ==
    LET vars_ == [i \in DOMAIN var_positions |-> var_positions[i].var]
        Marks(recs) ==
            Frame(PlotCols,
                  [i \in DOMAIN recs |->
                      LET x_num == IndexOf(cat_a_order, recs[i].a)
                          y_num == IndexOf(cat_b_order, recs[i].b)
                      IN  IF recs[i].c \in Range(vars_)
                          THEN LET pos == var_positions[IndexOf(vars_, recs[i].c)] IN
                               << recs[i].a, recs[i].b, recs[i].c, recs[i].g, 1, pos.var,
                                  pos.x_offset, pos.y_offset, x_num, y_num,
                                  10 * x_num + pos.x_offset, 10 * y_num + pos.y_offset >>
                          ELSE << recs[i].a, recs[i].b, recs[i].c, recs[i].g, 1, NaN,
                                  NaN, NaN, x_num, y_num, NaN, NaN >>])
    IN  Only({Marks(recs) :
                 recs \in {sort_values(reordered(rows, cat_a_order, cat_b_order),
                                       cat_a_order, group_levels, cat_b_order)}})

\* prepare_box_data of plots/_utils.py.
prepare_box_data(rows, cat_a_order, cat_b_order, group_levels) ==
    box_frame(reordered(rows, cat_a_order, cat_b_order), cat_a_order, cat_b_order,
              group_levels)

\* The figure dice_plot builds: one rectangle per box row, filled with
\* group_colors[row[group]] (KeyError for a NaN group), one scatter trace
\* per row of var_positions, the canvas sized by the two orders.
dice_plot_figure(g, var_positions, group_colors) ==
    LET box == g.box_data
        marks == g.plot_data
    IN  IF \E i \in DOMAIN box.rows : Get(box, box.rows[i], group) \notin Range(group_colors)
        THEN [NoFigure EXCEPT !.status = "KeyError"]
        ELSE
        [ status |-> "ok",
          shapes |-> [i \in DOMAIN box.rows |->
              [ x0 |-> Get(box, box.rows[i], "x_min"), y0 |-> Get(box, box.rows[i], "y_min"),
                x1 |-> Get(box, box.rows[i], "x_max"), y1 |-> Get(box, box.rows[i], "y_max"),
                fillcolor |-> Get(box, box.rows[i], group) ]],
          traces |-> [k \in DOMAIN var_positions |->
              LET var_data == SelectIdx(marks.rows,
                                  {i \in DOMAIN marks.rows :
                                      Get(marks, marks.rows[i], cat_c) = var_positions[k].var},
                                  1)
              IN  [ name |-> var_positions[k].var,
                    xy |-> [i \in DOMAIN var_data |->
                               << Get(marks, var_data[i], "x_pos"),
                                  Get(marks, var_data[i], "y_pos") >>] ]],
          width |-> generate_plot_dimensions(Len(g.cat_a_order),
                                             Len(g.cat_b_order)).plot_width,
          height |-> generate_plot_dimensions(Len(g.cat_a_order),
                                              Len(g.cat_b_order)).plot_height ]

\* dice_plot(data, cat_a, cat_b, cat_c, group, cat_c_colors, group_colors):
\* the outcome (ret) and the caller's table as the call leaves it (data).
\* An exception leaves no geometry behind; its name is ret.status.
dice_plot(table, cat_c_colors, group_colors) ==
    LET rows == table.rows
        num_unique_cat_c == Cardinality({rows[i].c : i \in DOMAIN rows})
        a_cats == unique([i \in DOMAIN rows |-> rows[i].a])
        b_cats == unique([i \in DOMAIN rows |-> rows[i].b])
        multi == group_check(rows, b_cats)
        warning == [issued |-> multi # <<>>, names |-> multi]
        converted == [i \in DOMAIN rows |->
                         [rows[i] EXCEPT !.c = Categorical(@, cat_c_colors),
                                         !.g = Categorical(@, group_colors)]]
        typed == [table EXCEPT !.rows = converted,
                               !.categories = [a |-> a_cats, b |-> b_cats,
                                               c |-> cat_c_colors, g |-> group_colors],
                               !.categorical = TRUE]
        Raise(kind, left) ==
            [ ret |-> [NoRet EXCEPT !.status = kind, !.warning = warning],
              data |-> left ]
        Drawn(var_positions, cat_a_order, cat_b_order, g) ==
            LET fig == dice_plot_figure(g, var_positions, group_colors)
                left == [typed EXCEPT
                            !.cols = assign_present(table.cols),
                            !.rows = reordered(converted, cat_a_order, cat_b_order),
                            !.categories = [a |-> cat_a_order, b |-> cat_b_order,
                                            c |-> cat_c_colors,
                                            g |-> Reverse(group_colors)]]
            IN  IF fig.status # "ok" THEN Raise(fig.status, left)
                ELSE [ ret |-> [ status |-> "ok", warning |-> warning, geometry |-> g,
                                 var_positions |-> var_positions,
                                 plot_dimensions |->
                                     generate_plot_dimensions(Len(cat_a_order),
                                                              Len(cat_b_order)),
                                 fig |-> fig ],
                       data |-> left ]
        Ordered(var_positions, cat_a_order, cat_b_order) ==
            Only({Drawn(var_positions, cat_a_order, cat_b_order, g) :
                     g \in {Geometry(cat_a_order, cat_b_order,
                                     prepare_plot_data(converted, var_positions,
                                                       cat_a_order, cat_b_order,
                                                       Reverse(group_colors)),
                                     prepare_box_data(converted, cat_a_order,
                                                      cat_b_order,
                                                      Reverse(group_colors)))}})
        Clustered(var_positions, clustering) ==
            IF clustering.status # "ok"
            THEN Raise(clustering.status,
                       [typed EXCEPT !.cols = assign_present(table.cols)])
            ELSE Only({Ordered(var_positions, clustering.order, cat_b_order) :
                          cat_b_order \in {order_cat_b(converted, b_cats, group_colors,
                                                       FALSE)}})
        Positioned(var_positions) ==
            IF var_positions.status # "ok" THEN Raise(var_positions.status, typed)
            ELSE Only({Clustered(var_positions.var_positions, clustering) :
                          clustering \in {plots_utils_perform_clustering(
                                              converted, a_cats, b_cats, cat_c_colors)}})
    IN  IF num_unique_cat_c \notin 3..6
        THEN [ ret |-> [NoRet EXCEPT !.status = "ValueError"], data |-> table ]
        ELSE Only({Positioned(var_positions) :
                      var_positions \in {create_var_positions(cat_c_colors,
                                                              num_unique_cat_c)}})

\* The caller runs dice_plot on its table.
DicePlot(cat_c_colors, group_colors) ==
    /\ call.fn = "none"
    /\ ord_call.fn = "none"
    /\ Len(data.rows) >= 1
    /\ \E out \in {dice_plot(data, cat_c_colors, group_colors)} :
           /\ ret' = out.ret
           /\ base' = out.ret.geometry
           /\ data' = out.data
    /\ call' = [fn |-> "dice_plot", rows |-> data.rows, fields |-> Fields,
                cat_c_colors |-> cat_c_colors, group_colors |-> group_colors,
                max_dice_sides |-> 0, switch_axis |-> FALSE]
    /\ UNCHANGED <<nSwitch, prev, othersDice>>

DicePlotNext ==
    \/ \E r \in DicePlotRows : AddRow(r)
    \/ \E cc \in DicePlotColorMaps, gc \in GroupColorMaps : DicePlot(cc, gc)

SpecDicePlot == Init /\ [][DicePlotNext]_vars

\* ------------------------------------------ quantitative encoder (domino)
\* preprocess_domino_plot, which computes the 'size' and 'adj_logfc' columns
\* the backends draw, is imported from ._domino_utils and is not among the
\* sources; the encoder below follows the specification's section 4.5.
\* Log-fold-changes are in tenths, p-values in thousandths, -log10(p) in
\* hundredths; a size or a color position is an exact ratio <<num, den>>.

\* Most observations of a domino table.
MaxObs == 3

LogFcValues == {-20, 0, 10, 20}

PValues == {-1, 0, 1, 10, 100, 1000}

Observations == [logfc : LogFcValues, pval : PValues]

\* logfc_limits arguments (low, high) and (min_dot_size, max_dot_size)
\* arguments a caller passes.
LogFcLimits == { <<-15, 15>>, <<-10, 20>> }

DotSizes == { <<1, 5>>, <<2, 3>> }

\* Clamp a value to [low, high].
clip(v, low, high) == IF v < low THEN low ELSE IF v > high THEN high ELSE v

\* The position on the color scale of a color value, as the renderers
\* compute it from cmin / cmax (plotly) or set_clim (matplotlib).
color_position(c, logfc_limits) ==
    Frac(c - logfc_limits[1], logfc_limits[2] - logfc_limits[1])

RECURSIVE ILog10(_)
\* floor(log10(n)) of a positive integer.
ILog10(n) == IF n < 10 THEN 0 ELSE 1 + ILog10(n \div 10)

\* -log10 of the smallest positive double (4.9e-324), in hundredths.
NegLog10Tiny == 32331

\* -log10(p) in hundredths, p in thousandths (a power of ten); p <= 0 is
\* clamped to the smallest representable positive value first.
neg_log10_inverted(p) == IF p <= 0 THEN 0 ELSE 100 * (3 - ILog10(p))

neg_log10(p) == IF p <= 0 THEN NegLog10Tiny ELSE 100 * (3 - ILog10(p))

\* Size mapping: -log10(p) normalised to [0, 1] across the observed range,
\* then interpolated between the size bounds.  Over an observed range of
\* width 0 the normalisation is 0 / 0, not a number: the ratio <<0, 0>>.
size_mapping_rising(p, observed, min_dot_size, max_dot_size) ==
    LET lo == Min({neg_log10(q) : q \in observed})
        hi == Max({neg_log10(q) : q \in observed})
    IN  IF hi = lo THEN <<0, 0>>
        ELSE Frac(max_dot_size * (hi - lo) - (neg_log10(p) - lo) * (max_dot_size - min_dot_size),
                  hi - lo)

size_mapping(p, observed, min_dot_size, max_dot_size) ==
    LET lo == Min({neg_log10(q) : q \in observed})
        hi == Max({neg_log10(q) : q \in observed})
    IN  IF hi = lo THEN <<0, 0>>
        ELSE Frac(min_dot_size * (hi - lo) + (neg_log10(p) - lo) * (max_dot_size - min_dot_size),
                  hi - lo)

\* Color mapping: the log-fold-change clamped to the limits ('adj_logfc').
color_mapping_unclamped(logfc, logfc_limits) == logfc

color_mapping(logfc, logfc_limits) == clip(logfc, logfc_limits[1], logfc_limits[2])

\* The encoded marks of a table of observations: per observation its size,
\* its clamped log-fold-change and the color position drawn for it.
quantitative_encoder(observations, logfc_limits, min_dot_size, max_dot_size) ==
    LET observed == {observations[i].pval : i \in DOMAIN observations}
        Mark(o) ==
            Only({[size |-> size_mapping(o.pval, observed, min_dot_size, max_dot_size),
                   adj_logfc |-> adj,
                   color |-> color_position(adj, logfc_limits)] :
                     adj \in {color_mapping(o.logfc, logfc_limits)}})
    IN  [status |-> "ok", marks |-> [i \in DOMAIN observations |-> Mark(observations[i])]]

\* The caller appends an observation to its domino table.
AddObservation(o) ==
    /\ enc_call.fn = "none"
    /\ Len(domino) < MaxObs
    /\ domino' = Append(domino, o)
    /\ UNCHANGED <<enc_call, enc_ret, othersEnc>>

\* The encoder runs on the table (a table of at least one observation).
Encode(logfc_limits, sizes) ==
    /\ enc_call.fn = "none"
    /\ Len(domino) >= 1
    /\ enc_call' = [fn |-> "quantitative_encoder", observations |-> domino,
                    logfc_limits |-> logfc_limits,
                    min_dot_size |-> sizes[1], max_dot_size |-> sizes[2]]
    /\ enc_ret' = quantitative_encoder(domino, logfc_limits, sizes[1], sizes[2])
    /\ UNCHANGED <<domino, othersEnc>>

EncNext ==
    \/ \E o \in Observations : AddObservation(o)
    \/ \E l \in LogFcLimits, z \in DotSizes : Encode(l, z)

SpecEnc == Init /\ [][EncNext]_vars

\* ------------------------------------------------- backend selection
MaxPlots == 2

_backends == <<"plotly", "matplotlib">>

\* Backend names a caller supplies; "matploptlib" is the example script's.
BackendNames == {"plotly", "matplotlib", "matploptlib"}

PlotTypes == {"dice", "domino", "pie"}

\* A plot call that does not name a backend.
Unnamed == "unnamed"

\* set_backend without its check.
set_backend_unchecked(flag, backend) ==
    [status |-> "ok", flag |-> backend]

\* set_backend: the assertion, then the assignment of the global.
set_backend(flag, backend) ==
    IF backend \notin Range(_backends)
    THEN [status |-> "AssertionError", flag |-> flag]
    ELSE [status |-> "ok", flag |-> backend]

\* plot's dispatch on its own 'backend' parameter, whose default is the
\* literal default_backend; the selected backend is not read.
plot(plot_type, backend, default_backend) ==
    LET chosen == IF backend = Unnamed THEN default_backend ELSE backend
    IN  IF plot_type \notin {"dice", "domino"}
        THEN [status |-> "ValueError", renderer |-> "none"]
        ELSE IF chosen = "plotly"
        THEN [status |-> "ok", renderer |-> "plot_with_plotly"]
        ELSE IF chosen = "matplotlib"
        THEN [status |-> "ok", renderer |-> "plot_with_matplotlib"]
        ELSE [status |-> "ValueError", renderer |-> "none"]

\* The default of plots/_plot.py's __plot is the selected backend as it was
\* when the module was imported.
ImportedBackend == "plotly"

SetBackend(backend) ==
    /\ \E out \in {set_backend(_backend, backend)} :
          /\ _backend' = out.flag
          /\ bk_ret' = [status |-> out.status, renderer |-> "none"]
    /\ bk_call' = [fn |-> "set_backend", backend |-> backend, plot_type |-> "none"]
    /\ UNCHANGED <<rendered, othersBk>>

Plot(plot_type, backend) ==
    /\ Len(rendered) < MaxPlots
    /\ \E out \in {plot(plot_type, backend, "plotly")} :
          /\ bk_ret' = out
          /\ rendered' = IF out.status = "ok"
                         THEN Append(rendered, out.renderer) ELSE rendered
    /\ bk_call' = [fn |-> "plot", backend |-> backend, plot_type |-> plot_type]
    /\ UNCHANGED <<_backend, othersBk>>

PlotsPlot(plot_type, backend) ==
    /\ Len(rendered) < MaxPlots
    /\ \E out \in {plot(plot_type, backend, ImportedBackend)} :
          /\ bk_ret' = out
          /\ rendered' = IF out.status = "ok"
                         THEN Append(rendered, out.renderer) ELSE rendered
    /\ bk_call' = [fn |-> "__plot", backend |-> backend, plot_type |-> plot_type]
    /\ UNCHANGED <<_backend, othersBk>>

BkNext ==
    \/ \E b \in BackendNames : SetBackend(b)
    \/ \E t \in PlotTypes, b \in BackendNames \cup {Unnamed} : Plot(t, b)
    \/ \E t \in PlotTypes, b \in BackendNames \cup {Unnamed} : PlotsPlot(t, b)

SpecBk == Init /\ [][BkNext]_vars

\* ------------------------------------------------------------ domino plot
\* plot_domino of the two backends (their box loops are the same code).
\* preprocess_domino_plot and switch_axes_domino are imported from
\* ._domino_utils, which is not among the sources: they follow the
\* specification's sections 4.4 and 4.6.

\* Most rows of a domino table.
MaxPairs == 3

FeatureLabels == <<"G1", "G2", "T1">>

CelltypeLabels == <<"T1", "T2">>

\* The default of plot_domino's contrast_levels.
contrast_levels == <<"Clinical", "Pathological">>

DominoRows == [gene : Range(FeatureLabels), Celltype : Range(CelltypeLabels),
               Contrast : Range(contrast_levels)]

\* The gene_list and spacing_factor arguments of the calls.
GeneLists == { <<"G1", "G2">>, <<"G2", "G1">>, <<"G1">>, <<"G1", "T1">> }

SpacingFactors == {2, 3}

\* The lists that hold each element of a set once.
Orderings(S) == {q \in [1..Cardinality(S) -> S] : Range(q) = S}

\* The rows preprocessing keeps: those of the features of gene_list.
Listed(rows, gene_list) ==
    SelectIdx(rows, {i \in DOMAIN rows : rows[i].gene \in Range(gene_list)}, 1)

\* preprocess_domino_plot: the mark records of the listed features, each at
\* the slot of its feature and contrast level and at the index of its cell
\* type, and the ordered list of cell types (celltype_order, an ordering of
\* the cell types that occur).  Coordinates in tenths.
preprocess_domino_plot(rows, gene_list, spacing_factor, levels, celltype_order) ==
    LET kept == Listed(rows, gene_list) IN
    [ plot_data |->
          [i \in DOMAIN kept |->
              [ gene |-> kept[i].gene, Celltype |-> kept[i].Celltype,
                Contrast |-> kept[i].Contrast,
                x_pos |-> 10 * ((IndexOf(gene_list, kept[i].gene) - 1) * spacing_factor
                                + (IF kept[i].Contrast = levels[1] THEN 1 ELSE 2)),
                y_pos |-> 10 * IndexOf(celltype_order, kept[i].Celltype) ]],
      unique_celltypes |-> celltype_order ]

\* switch_axes_domino: the position fields exchanged, a pure relabeling.
switch_axes_domino(plot_data) ==
    [i \in DOMAIN plot_data |->
        [plot_data[i] EXCEPT !.x_pos = plot_data[i].y_pos, !.y_pos = plot_data[i].x_pos]]

\* A mutation of x_min: the slots of a feature packed without the spacing
\* factor.
x_min_packed(gene_idx, spacing_factor, contrast, levels) ==
    IF contrast = levels[1]
    THEN 10 * ((gene_idx - 1) * 2 + 1) - 4
    ELSE 10 * ((gene_idx - 1) * 2 + 2) - 4

\* x_min / x_max of the rectangle of one contrast level, in tenths.
x_min(gene_idx, spacing_factor, contrast, levels) ==
    IF contrast = levels[1]
    THEN 10 * ((gene_idx - 1) * spacing_factor + 1) - 4
    ELSE 10 * ((gene_idx - 1) * spacing_factor + 2) - 4

x_max(gene_idx, spacing_factor, contrast, levels) ==
    IF contrast = levels[1]
    THEN 10 * ((gene_idx - 1) * spacing_factor + 1) + 4
    ELSE 10 * ((gene_idx - 1) * spacing_factor + 2) + 4

\* plot_data[[feature_col, celltype_col]].drop_duplicates()
unique_pairs(plot_data) ==
    unique([i \in DOMAIN plot_data |-> <<plot_data[i].gene, plot_data[i].Celltype>>])

\* plot_domino: preprocessing, the axis switch (the two ordered lists
\* exchanged), then two rectangles per unique (feature, cell type) pair of
\* plot_data.  list.index of a label the list does not hold raises
\* ValueError.
plot_domino(rows, gene_list, spacing_factor, switch_axis, levels, celltype_order) ==
    LET Boxes(plot_data, genes, celltypes) ==
            LET pairs == unique_pairs(plot_data)
                n == Len(levels)
                Rect(pair, contrast) ==
                    LET gene_idx == IndexOf(genes, pair[1])
                        celltype_idx == IndexOf(celltypes, pair[2])
                    IN  [ x0 |-> x_min(gene_idx, spacing_factor, contrast, levels),
                          y0 |-> 10 * celltype_idx - 4,
                          x1 |-> x_max(gene_idx, spacing_factor, contrast, levels),
                          y1 |-> 10 * celltype_idx + 4 ]
            IN  IF \E i \in DOMAIN pairs :
                       pairs[i][1] \notin Range(genes) \/ pairs[i][2] \notin Range(celltypes)
                THEN [status |-> "ValueError", shapes |-> <<>>, plot_data |-> plot_data]
                ELSE [status |-> "ok",
                      shapes |-> [k \in 1..(Len(pairs) * n) |->
                                     Rect(pairs[((k - 1) \div n) + 1],
                                          levels[((k - 1) % n) + 1])],
                      plot_data |-> plot_data]
        Switched(pre) ==
            IF switch_axis
            THEN Boxes(switch_axes_domino(pre.plot_data), pre.unique_celltypes, gene_list)
            ELSE Boxes(pre.plot_data, gene_list, pre.unique_celltypes)
    IN  Only({Switched(pre) :
                 pre \in {preprocess_domino_plot(rows, gene_list, spacing_factor, levels,
                                                 celltype_order)}})

\* The caller appends a row to its domino table.
AddDominoRow(r) ==
    /\ dom_call.fn = "none"
    /\ Len(dom_data) < MaxPairs
    /\ dom_data' = Append(dom_data, r)
    /\ UNCHANGED <<dom_call, dom_ret, othersDom>>

\* plot_domino of a backend is called on the table.
PlotDomino(gene_list, spacing_factor, switch_axis, backend) ==
    /\ dom_call.fn = "none"
    /\ Len(dom_data) >= 1
    /\ \E celltype_order \in
           Orderings({r.Celltype : r \in Range(Listed(dom_data, gene_list))}) :
           /\ dom_call' = [fn |-> "plot_domino", rows |-> dom_data,
                           gene_list |-> gene_list, spacing_factor |-> spacing_factor,
                           switch_axis |-> switch_axis,
                           contrast_levels |-> contrast_levels,
                           unique_celltypes |-> celltype_order, backend |-> backend]
           /\ dom_ret' = plot_domino(dom_data, gene_list, spacing_factor, switch_axis,
                                     contrast_levels, celltype_order)
    /\ UNCHANGED <<dom_data, othersDom>>

DomNext ==
    \/ \E r \in DominoRows : AddDominoRow(r)
    \/ \E gene_list \in GeneLists, spacing_factor \in SpacingFactors,
          switch_axis \in BOOLEAN, backend \in {"plotly", "matplotlib"} :
           PlotDomino(gene_list, spacing_factor, switch_axis, backend)

SpecDomino == Init /\ [][DomNext]_vars

\* ------------------------------------------------------ claims C1 - C5
\* The (primary, secondary) pairs that occur in a table.
Pairs(rows) == {<<rows[i].a, rows[i].b>> : i \in DOMAIN rows}

\* The box records of a frame that lie on a given (primary, secondary) pair.
BoxesOf(frame, p) ==
    {i \in DOMAIN frame.rows :
        <<Get(frame, frame.rows[i], cat_a), Get(frame, frame.rows[i], cat_b)>> = p}

\* The group value of the first row of a secondary category, in row order.
FirstGroup(rows, b) ==
    rows[CHOOSE i \in DOMAIN rows :
            rows[i].b = b /\ \A j \in 1..(i - 1) : rows[j].b # b].g

\* The secondary categories that occur with more than one group value.
MultiGroup(rows) ==
    {b \in {rows[i].b : i \in DOMAIN rows} :
        Cardinality({rows[i].g : i \in {j \in DOMAIN rows : rows[j].b = b}}) > 1}

\* The distinct primary-category values of a table.
Primaries(rows) == {rows[i].a : i \in DOMAIN rows}

\* C1: the box records plot_dice computes hold exactly one record for every
\* (primary, secondary) pair that occurs in the table it was given, and none
\* for any other pair, also when a secondary category has several groups.
C1_OneBoxPerPair ==
    (call.fn = "plot_dice" /\ ret.status = "ok") =>
        /\ \A p \in Pairs(call.rows) : Cardinality(BoxesOf(base.box_data, p)) = 1
        /\ \A i \in DOMAIN base.box_data.rows :
               <<Get(base.box_data, base.box_data.rows[i], cat_a),
                 Get(base.box_data, base.box_data.rows[i], cat_b)>> \in Pairs(call.rows)

\* C2: the group tag of every box record is the first group value observed,
\* in the table's row order, for the box's secondary category (as the group
\* column holds it once it is categorical over the group color map).
C2_BoxGroupIsFirstSeen ==
    (call.fn = "plot_dice" /\ ret.status = "ok") =>
        \A i \in DOMAIN base.box_data.rows :
            Get(base.box_data, base.box_data.rows[i], group) =
                Categorical(FirstGroup(call.rows,
                                       Get(base.box_data, base.box_data.rows[i], cat_b)),
                            call.group_colors)

\* C3: a call that returns its output has issued a warning exactly when some
\* secondary category of the table occurs with more than one group value,
\* and the warning names exactly those secondary categories.
C3_WarningNamesMultiGroup ==
    (call.fn = "plot_dice" /\ ret.status = "ok") =>
        /\ ret.warning.issued <=> MultiGroup(call.rows) # {}
        /\ ret.warning.issued => Range(ret.warning.names) = MultiGroup(call.rows)

\* C4: for every table of at least one row, perform_clustering
\* (backends/_utils.py) returns a list holding each distinct primary value
\* of the table exactly once.
C4_OrderIsPermutation ==
    ord_call.fn = "perform_clustering" =>
        /\ ord_ret.status = "ok"
        /\ Range(ord_ret.order) = Primaries(ord_call.rows)
        /\ Len(ord_ret.order) = Cardinality(Primaries(ord_call.rows))

\* C5: for a table with exactly one distinct primary value, either
\* perform_clustering returns the one-element list of that value, without
\* running the distance / linkage step and without raising.
C5_SinglePrimarySkipsClustering ==
    (ord_call.fn # "none" /\ Cardinality(Primaries(ord_call.rows)) = 1) =>
        /\ ord_ret.status = "ok"
        /\ ~ord_ret.clustered
        /\ Len(ord_ret.order) = 1
        /\ Range(ord_ret.order) = Primaries(ord_call.rows)

\* ---------------------------------------------------- claims C11 - C13
IsNaN(r) == r[2] = 0

\* r <= q for two ratios; no comparison with a NaN holds.
Leq(r, q) == ~IsNaN(r) /\ ~IsNaN(q) /\ r[1] * q[2] <= q[1] * r[2]

Encoded == enc_call.fn = "quantitative_encoder"

ObservedPValues == {enc_call.observations[i].pval : i \in DOMAIN enc_call.observations}

\* The observed p-values span more than one significance level.
Spread == Cardinality({neg_log10(q) : q \in ObservedPValues}) > 1

\* Size is non-increasing in the p-value, within the size bounds, maximal at
\* the most significant observed p-value and minimal at the least.
SizesMonotoneWithinBounds ==
    /\ \A i \in DOMAIN enc_ret.marks :
          /\ Leq(<<enc_call.min_dot_size, 1>>, enc_ret.marks[i].size)
          /\ Leq(enc_ret.marks[i].size, <<enc_call.max_dot_size, 1>>)
          /\ enc_call.observations[i].pval = Min(ObservedPValues)
                => enc_ret.marks[i].size = <<enc_call.max_dot_size, 1>>
          /\ enc_call.observations[i].pval = Max(ObservedPValues)
                => enc_ret.marks[i].size = <<enc_call.min_dot_size, 1>>
    /\ \A i, j \in DOMAIN enc_ret.marks :
          enc_call.observations[i].pval <= enc_call.observations[j].pval
              => Leq(enc_ret.marks[j].size, enc_ret.marks[i].size)

C12_ColorPositionClamped ==
    Encoded =>
        \A i \in DOMAIN enc_ret.marks :
            LET c == enc_ret.marks[i].color
                logfc == enc_call.observations[i].logfc
                low == enc_call.logfc_limits[1]
                high == enc_call.logfc_limits[2]
            IN  /\ Leq(<<0, 1>>, c) /\ Leq(c, <<1, 1>>)
                /\ logfc < low => c = <<0, 1>>
                /\ logfc > high => c = <<1, 1>>
                /\ (low <= logfc /\ logfc <= high)
                      => c[1] * (high - low) = (logfc - low) * c[2]

C12_Witness ==
    /\ Encoded
    /\ \E i, j, k \in DOMAIN enc_ret.marks :
          /\ enc_call.observations[i].logfc < enc_call.logfc_limits[1]
          /\ enc_call.observations[j].logfc > enc_call.logfc_limits[2]
          /\ enc_ret.marks[k].color \notin {<<0, 1>>, <<1, 1>>}

\* Every observation with a p-value <= 0 has the maximal size.
NonPositiveIsLargest ==
    \A i \in DOMAIN enc_ret.marks :
        enc_call.observations[i].pval <= 0
            => enc_ret.marks[i].size = <<enc_call.max_dot_size, 1>>

AbsentFields ==
    {f \in DOMAIN call.fields : call.fields[f] \notin Range(Table(<<>>).cols)}

C17_RepeatedCallSameOutput ==
    (prev.status # "none" /\ nSwitch = OwnSwitches(call, ret)) => ret = prev

\* A repeated call on a table whose values the call before replaced.
C17_Witness ==
    /\ prev.status = "ok"
    /\ ret.status = "ok"
    /\ call.rows # data.rows
    /\ Len(ret.geometry.cat_a_order) >= 2
    /\ ret.geometry.plot_data.rows # <<>>

\* ------------------------------------------------------------ claim C18
\* The groups a secondary label occurs with.
GroupsOf(rows, b) == {rows[i].g : i \in {j \in DOMAIN rows : rows[j].b = b}}

\* Every secondary label has one group, and the color map declares it: the
\* tables on which "the label's group" is one group with a rank.
OneDeclaredGroup(rows, group_colors) ==
    \A i \in DOMAIN rows :
        /\ Cardinality(GroupsOf(rows, rows[i].b)) = 1
        /\ rows[i].g \in Range(group_colors)

\* The order the specification states: the distinct labels by (rank of the
\* label's group in the reversed key order, occurrences descending, label
\* alphabetically).
StatedSecondaryOrder(rows, group_colors) ==
    LET labels == SortedUnique({rows[i].b : i \in DOMAIN rows}, SecondaryLabels)
        entries == [k \in DOMAIN labels |->
            [key |-> << IndexOf(Reverse(group_colors),
                                CHOOSE g \in GroupsOf(rows, labels[k]) : TRUE),
                        0 - Cardinality({i \in DOMAIN rows : rows[i].b = labels[k]}),
                        IndexOf(SecondaryLabels, labels[k]) >>,
             rec |-> labels[k]]]
    IN  Only({[i \in DOMAIN sorted |-> sorted[i].rec] :
                 sorted \in {SortByKey(entries, Len(entries))}})

\* C18: the secondary-axis order lists each distinct secondary label once,
\* sorted by (rank of the label's group in the reversed key order of the
\* group color map, occurrence count descending, label ascending).
C18_SecondaryOrderAsStated ==
    (ord_call.fn = "order_cat_b"
        /\ OneDeclaredGroup(ord_call.rows, ord_call.group_colors)) =>
        ord_ret.order = StatedSecondaryOrder(ord_call.rows, ord_call.group_colors)

\* ------------------------------------------------------------ claim C19
\* The (secondary, tertiary) combination occurs in a row of the primary.
Occurs(rows, a, key) ==
    \E i \in DOMAIN rows : rows[i].a = a /\ Combined(rows[i].b, rows[i].c) = key

\* C19: the presence matrix has one row per distinct primary label, a
\* column for every (secondary, tertiary) combination that occurs, and a
\* cell is 1 when the combination occurs for the row and 0 otherwise, also
\* when it occurs several times.  Stated for tables whose tertiary labels
\* are all keys of the color map.
C19_PresenceMatrixIsBinary ==
    (ord_call.fn \in {"perform_clustering", "plots._utils.perform_clustering"}
        /\ binary_matrix.status = "ok"
        /\ \A i \in DOMAIN ord_call.rows :
               ord_call.rows[i].c \in Range(ord_call.cat_c_colors)) =>
        LET rows == ord_call.rows
            m == binary_matrix
        IN  /\ Range(m.index) = {rows[i].a : i \in DOMAIN rows}
            /\ Len(m.index) = Cardinality(Range(m.index))
            /\ \A i \in DOMAIN rows : Combined(rows[i].b, rows[i].c) \in m.columns
            /\ \A k \in DOMAIN m.index : \A key \in m.columns :
                   m.values[k][key] = IF Occurs(rows, m.index[k], key) THEN 1 ELSE 0

\* ------------------------------------------------------------ claim C29
\* C29: building the presence matrix does not fail, and two distinct
\* (secondary, tertiary) combinations of the table never share a column.
C29_CombinationsKeepApart ==
    ord_call.fn \in {"perform_clustering", "plots._utils.perform_clustering"} =>
        /\ binary_matrix.status = "ok"
        /\ \A i, j \in DOMAIN data.rows :
               (/\ data.rows[i].c # NaN /\ data.rows[j].c # NaN
                /\ <<data.rows[i].b, data.rows[i].c>> # <<data.rows[j].b, data.rows[j].c>>)
               => Combined(data.rows[i].b, data.rows[i].c)
                      # Combined(data.rows[j].b, data.rows[j].c)

\* ------------------------------------------------------ claims C15, C16
\* The last call supplied a backend name that is not supported.
Unsupported(c) ==
    /\ c.fn \in {"set_backend", "plot", "__plot"}
    /\ c.backend \notin Range(_backends) \cup {Unnamed}

\* C15: a call that supplies an unsupported backend name (set_backend or a
\* plot call) ends in an error, leaves the selected backend as it was and
\* hands no renderer to a plot function.
C15_UnsupportedBackendRejected ==
    [][Unsupported(bk_call') =>
          /\ bk_ret'.status \in {"AssertionError", "ValueError"}
          /\ bk_ret'.renderer = "none"
          /\ _backend' = _backend
          /\ rendered' = rendered]_vars

C15_Witness ==
    /\ bk_call.fn = "set_backend"
    /\ bk_call.backend = "matploptlib"
    /\ bk_ret.status = "AssertionError"
    /\ _backend = "matplotlib"
    /\ rendered # <<>>

RendererOf(backend) ==
    IF backend = "plotly" THEN "plot_with_plotly" ELSE "plot_with_matplotlib"

\* C16: a plot call that names no backend uses the renderer of the backend
\* selected by the latest successful set_backend.
C16_UnnamedPlotUsesSelected ==
    (bk_call.fn \in {"plot", "__plot"} /\ bk_call.backend = Unnamed
        /\ bk_ret.status = "ok") =>
        bk_ret.renderer = RendererOf(_backend)

\* ------------------------------------------------------------ claim C20
\* C20: the canvas is 50 * countX + 150 + 300 wide and 50 * countY + 100 +
\* 200 high, countX and countY being the numbers of categories on the x and
\* y axes of the plot as plot_dice lays it out, with switch_axis or without.
C20_CanvasFollowsAxes ==
    (call.fn = "plot_dice" /\ ret.status = "ok"
        /\ nSwitch = OwnSwitches(call, ret)) =>
        /\ ret.plot_dimensions.plot_width
               = 50 * Len(ret.geometry.cat_a_order) + 150 + 300
        /\ ret.plot_dimensions.plot_height
               = 50 * Len(ret.geometry.cat_b_order) + 100 + 200

\* ------------------------------------------------------ claims C6 - C9
Offsets == [i \in DOMAIN pos_ret.var_positions |->
               <<pos_ret.var_positions[i].x_offset, pos_ret.var_positions[i].y_offset>>]

\* C6: for each supported cardinality, the offsets the position assigner
\* returns are pairwise distinct: no two keys share an (x_offset, y_offset).
C6_OffsetsPairwiseDistinct ==
    pos_ret.status = "ok" =>
        \A i, j \in DOMAIN Offsets : i # j => Offsets[i] # Offsets[j]

C6_Witness ==
    /\ pos_ret.status = "ok"
    /\ pos_call.fn = "calculate_var_positions"
    /\ Len(pos_ret.var_positions) = 6

\* C7: every returned offset has magnitude at most 0.3 on both axes, so a
\* mark at grid index + offset stays inside its grid index's unit cell
\* (strictly less than 0.5 away from the index).
C7_OffsetsWithinCell ==
    pos_ret.status = "ok" =>
        \A i \in DOMAIN Offsets :
            /\ -3 <= Offsets[i][1] /\ Offsets[i][1] <= 3
            /\ -3 <= Offsets[i][2] /\ Offsets[i][2] <= 3

C7_Witness ==
    /\ pos_ret.status = "ok"
    /\ \E i \in DOMAIN Offsets : Offsets[i][2] = 3
    /\ \E i \in DOMAIN Offsets : Offsets[i][2] = -3

\* C8: a call with a cardinality outside 1..6 fails with the
\* unsupported-cardinality configuration error (ValueError), whatever
\* max_dice_sides is, and returns no position table.
C8_UnsupportedCardinalityRejected ==
    (pos_call.fn # "none" /\ Len(pos_call.cat_c_colors) \notin 1..6) =>
        /\ pos_ret.status = "ValueError"
        /\ pos_ret.var_positions = <<>>

\* C9: a 4-key color map k1..k4 is laid out (-0.2, 0.2), (0.2, 0.2),
\* (-0.2, -0.2), (0.2, -0.2) in key order.
C9_FourKeyLayout ==
    (pos_ret.status = "ok" /\ Len(pos_call.cat_c_colors) = 4) =>
        pos_ret.var_positions =
            VarFrame(pos_call.cat_c_colors,
                     << <<-2, 2>>, <<2, 2>>, <<-2, -2>>, <<2, -2>> >>)

\* ------------------------------------------------- claims C21, C22, C27
\* x_num and y_num of a record are the 1-based positions of its labels in
\* the two category orders.
GridIndexed(frame, cat_a_order, cat_b_order) ==
    \A i \in DOMAIN frame.rows :
        LET r == frame.rows[i]
            x_num == Get(frame, r, "x_num")
            y_num == Get(frame, r, "y_num")
        IN  /\ x_num \in 1..Len(cat_a_order)
            /\ y_num \in 1..Len(cat_b_order)
            /\ cat_a_order[x_num] = Get(frame, r, cat_a)
            /\ cat_b_order[y_num] = Get(frame, r, cat_b)

\* C21: in every mark and box record preprocessing returns, x_num and y_num
\* are the 1-based positions of the record's primary and secondary labels
\* in the returned category orders, never 0.
C21_GridIndexOneBased ==
    (call.fn \in {"plot_dice", "dice_plot"} /\ ret.status = "ok") =>
        /\ GridIndexed(base.plot_data, base.cat_a_order, base.cat_b_order)
        /\ GridIndexed(base.box_data, base.cat_a_order, base.cat_b_order)

C21_Witness ==
    /\ call.fn = "plot_dice" /\ ret.status = "ok"
    /\ Len(base.cat_a_order) = 3
    /\ base.cat_a_order # SortedUnique(Range(base.cat_a_order), PrimaryLabels)
    /\ Len(base.plot_data.rows) = 3

\* The mark records of a frame on a (primary, secondary, tertiary) triple.
MarksOf(frame, a, b, c) ==
    {i \in DOMAIN frame.rows :
        /\ Get(frame, frame.rows[i], cat_a) = a
        /\ Get(frame, frame.rows[i], cat_b) = b
        /\ Get(frame, frame.rows[i], cat_c) = c}

\* C22: the mark records are one per observation row: as many marks on a
\* (primary, secondary, tertiary) triple as the table has rows of it, and
\* as many marks in all as the table has rows.
C22_OneMarkPerRow ==
    (call.fn \in {"plot_dice", "dice_plot"} /\ ret.status = "ok") =>
        /\ Len(base.plot_data.rows) = Len(call.rows)
        /\ \A k \in DOMAIN call.rows :
               LET r == call.rows[k] IN
               Cardinality(MarksOf(base.plot_data, r.a, r.b, r.c))
                   = Cardinality({i \in DOMAIN call.rows : call.rows[i] \in
                                     {q \in Range(call.rows) :
                                         <<q.a, q.b, q.c>> = <<r.a, r.b, r.c>>}})

\* C27: every mark (a record whose tertiary label has a position) lies strictly inside the box
\* of its own (primary, secondary) pair: the box exists, and the mark is
\* strictly between its x bounds and strictly between its y bounds.
C27_MarkInsideOwnBox ==
    (call.fn \in {"plot_dice", "dice_plot"} /\ ret.status = "ok") =>
        \A i \in DOMAIN base.plot_data.rows :
            LET m == base.plot_data.rows[i]
                x_pos == Get(base.plot_data, m, "x_pos")
                y_pos == Get(base.plot_data, m, "y_pos")
                own == BoxesOf(base.box_data, <<Get(base.plot_data, m, cat_a),
                                                Get(base.plot_data, m, cat_b)>>)
            IN  Get(base.plot_data, m, "var") # NaN =>
                    /\ own # {}
                    /\ \A j \in own :
                           LET bx == base.box_data.rows[j] IN
                           /\ Get(base.box_data, bx, "x_min") < x_pos
                           /\ x_pos < Get(base.box_data, bx, "x_max")
                           /\ Get(base.box_data, bx, "y_min") < y_pos
                           /\ y_pos < Get(base.box_data, bx, "y_max")

\* Marks off the centre of their cells (offset 0.2) are laid out in two
\* or more boxes.
C27_Witness ==
    /\ call.fn = "plot_dice" /\ ret.status = "ok"
    /\ \E i \in DOMAIN base.plot_data.rows :
           Get(base.plot_data, base.plot_data.rows[i], "x_offset") \in {-2, 2}
    /\ Len(base.plot_data.rows) >= 2
    /\ Len(base.box_data.rows) >= 2

\* ---------------------------------------------------------- claim C28
\* C28: a plot invocation leaves the caller's table as it was passed: the
\* same columns (no 'present'), the same column types and category sets,
\* the same values, whether the invocation returns or raises.
C28_CallerTableUnchanged ==
    (call.fn \in {"plot_dice", "dice_plot"} /\ prev.status = "none") =>
        data = Table(call.rows)

\* ---------------------------------------------------------- claim C26
\* C26: plot_dice called with group=None completes without error and
\* every box of its figure is filled white.
C26_NoGroupDrawsWhiteBoxes ==
    (call.fn = "plot_dice" /\ call.fields.g = None) =>
        /\ ret.status = "ok"
        /\ ret.fig.status = "ok"
        /\ Len(ret.fig.shapes) >= 1
        /\ \A i \in DOMAIN ret.fig.shapes : ret.fig.shapes[i].fillcolor = "#FFFFFF"

\* ---------------------------------------------------- claims C23, C30
\* The (feature, cell type) pairs of the marks plot_domino draws.
DominoPairs == Range(unique_pairs(dom_ret.plot_data))

\* The rectangle centred at (x, y), in whole units, with half-width and
\* half-height 0.4.
Centred(x, y) == [x0 |-> 10 * x - 4, y0 |-> 10 * y - 4, x1 |-> 10 * x + 4, y1 |-> 10 * y + 4]

\* C23: with spacing factor S (and the axes not switched) the rectangles
\* are, for each pair of the feature at index i of the gene list and the
\* cell type at index j of the cell type list, the one centred at
\* ((i-1)*S + 1, j) and the one centred at ((i-1)*S + 2, j), each with
\* half-width and half-height 0.4, and no other.
C23_DominoBoxSlots ==
    (dom_call.fn = "plot_domino" /\ ~dom_call.switch_axis /\ dom_ret.status = "ok") =>
        LET S == dom_call.spacing_factor
            i(p) == IndexOf(dom_call.gene_list, p[1])
            j(p) == IndexOf(dom_call.unique_celltypes, p[2])
        IN  /\ \A p \in DominoPairs : i(p) >= 1 /\ j(p) >= 1
            /\ Range(dom_ret.shapes) =
                   {Centred((i(p) - 1) * S + slot, j(p)) : p \in DominoPairs, slot \in {1, 2}}
            /\ Len(dom_ret.shapes) = 2 * Cardinality(DominoPairs)

\* Two features and two cell types are drawn, the second feature S apart
\* from the first.
C23_Witness ==
    /\ dom_call.fn = "plot_domino" /\ ~dom_call.switch_axis /\ dom_ret.status = "ok"
    /\ Len(dom_call.gene_list) = 2
    /\ Len(dom_call.unique_celltypes) = 2
    /\ Cardinality(DominoPairs) >= 2
    /\ \E p \in DominoPairs : IndexOf(dom_call.gene_list, p[1]) = 2

\* C30: with the axis-switch flag set plot_domino finds every (feature,
\* cell type) pair in the exchanged lists and draws one rectangle per pair
\* and contrast level, raising no lookup error.
C30_SwitchedDominoDrawsEveryPair ==
    (dom_call.fn = "plot_domino" /\ dom_call.switch_axis) =>
        /\ dom_ret.status = "ok"
        /\ Len(dom_ret.shapes) = Len(dom_call.contrast_levels) * Cardinality(DominoPairs)

\* ---------------------------------------------------------- claim C24
\* C24: after plot_dice's axis switch every box record has the four bounds
\* x_min, x_max, y_min, y_max at 0.4 around its (switched) x_num, y_num, and
\* every mark sits at x_num + its y offset, y_num + its x offset.
C24_SwitchedBoxesCentred ==
    (call.fn = "plot_dice" /\ call.switch_axis /\ ret.status = "ok" /\ nSwitch = 1) =>
        LET box == ret.geometry.box_data
            marks == ret.geometry.plot_data
        IN  /\ \A n \in {"x_num", "y_num", "x_min", "x_max", "y_min", "y_max"} :
                   HasCol(box, n)
            /\ \A i \in DOMAIN box.rows :
                   LET r == box.rows[i] IN
                   /\ Get(box, r, "x_min") = 10 * Get(box, r, "x_num") - 4
                   /\ Get(box, r, "x_max") = 10 * Get(box, r, "x_num") + 4
                   /\ Get(box, r, "y_min") = 10 * Get(box, r, "y_num") - 4
                   /\ Get(box, r, "y_max") = 10 * Get(box, r, "y_num") + 4
            /\ \A i \in DOMAIN marks.rows :
                   LET r == marks.rows[i] IN
                   /\ Get(marks, r, "x_pos") - 10 * Get(marks, r, "x_num")
                          = Get(marks, r, "y_offset")
                   /\ Get(marks, r, "y_pos") - 10 * Get(marks, r, "y_num")
                          = Get(marks, r, "x_offset")

\* ---------------------------------------------------------- claim C25
\* C25: the offsets of a returned layout are symmetric about (0, 0): with
\* (x, y) the layout also holds (-x, -y).
C25_OffsetsPointSymmetric ==
    pos_ret.status = "ok" =>
        \A i \in DOMAIN Offsets :
            \E j \in DOMAIN Offsets :
                Offsets[j] = <<0 - Offsets[i][1], 0 - Offsets[i][2]>>

\* ---------------------------------------------------------- claim C10
\* C10: the axis-switch transform applied twice to the geometry of a dice
\* plot (category orders, mark columns, box columns) gives back the
\* geometry preprocessing returned, unswitched.
C10_SwitchTwiceIsIdentity ==
    (call.fn = "plot_dice" /\ ret.status = "ok" /\ nSwitch = 2) => ret.geometry = base

====
